---- MODULE Spec2Model ----
(***************************************************************************)
(* Lead-Gen-Engine: the supervised lead processor (src/processor_api.py).  *)
(* The model covers the sheet cache, the safe read/write executor, the     *)
(* duplicate key, the three-phase duplicate guardian, the phone / preview  *)
(* / column verifications that run after a save, and the main loop.        *)
(*                                                                         *)
(* Text is modelled as sequences of one-character strings, so that the     *)
(* normalisations of the source are computed, not assumed.                 *)
(***************************************************************************)
EXTENDS Integers, Sequences, FiniteSets, TLC

(***************************************************************************)
(* Bounds of the model.                                                    *)
(***************************************************************************)
\* Largest number of rows of the LEADS sheet at start: for one engine on a
\* store that works, and for the runs with failures, out-of-band edits or a
\* second engine.
MaxLeads == 3
MaxBusyLeads == 2
\* Largest number of rows of the RESULTS sheet at start.
MaxInitRows == 1
\* Largest number of out-of-band edits of the RESULTS sheet in one run.
MaxEdits == 2
\* Out-of-band copies of rows in the run of the clean-up.
MaxHealEdits == 3
\* Largest number of store calls that fail in one run.
MaxFaults == 4
\* The same, in the runs that have out-of-band edits too.
MaxExtFaults == 1
\* Number of pending leads of the long LEADS sheet.
MaxLongLeads == 51
\* Store calls that may fail, and items for which an interrupt is swallowed,
\* in a run with manual interrupts.
MaxLoopFaults == 1
MaxSwallowed == 1
\* The safe layer alone: largest number of calls of safe_sheet_read and
\* safe_sheet_write in one run, of attempts that fail, and of seconds that
\* pass between the calls.
MaxCalls == 2
MaxIOFaults == 5
MaxTicks == 1
\* The key on its own: longest name, and number of calls on one pair.
MaxNameLen == 3
MaxKeyCalls == 2
\* The embedding of the preview URL: longest ice breaker, longest URL and
\* number of calls on one pair.
MaxIceLen == 3
MaxUrlLen == 2
MaxEmbedCalls == 2
\* The campaign scheduler: last day of a run (it starts on day 1), and
\* number of passes of a run that end without a successful campaign.
MaxDay == 3
MaxSlack == 1
\* The CAMPAIGNS sheet: calls that write to it and fail, in one run.
MaxCampFaults == 1

(***************************************************************************)
(* Characters and the string functions of the source.                      *)
(***************************************************************************)
UpperLetters == <<"A","B","C","D","E","F","G","H","I","J","K","L","M",
                  "N","O","P","Q","R","S","T","U","V","W","X","Y","Z">>
LowerLetters == <<"a","b","c","d","e","f","g","h","i","j","k","l","m",
                  "n","o","p","q","r","s","t","u","v","w","x","y","z">>
DigitChars == {"0","1","2","3","4","5","6","7","8","9"}

Range(f) == {f[x] : x \in DOMAIN f}

\* The lower-case letter of every upper-case letter.
UpperToLower ==
    [c \in Range(UpperLetters) |->
        LowerLetters[CHOOSE k \in DOMAIN UpperLetters : UpperLetters[k] = c]]

\* str.lower() on one character.
LowerChar(c) == IF c \in DOMAIN UpperToLower THEN UpperToLower[c] ELSE c

LowerStr(s) == [k \in DOMAIN s |-> LowerChar(s[k])]

\* The character class [a-z0-9] of the regular expressions.
LowerAlnumChars == Range(LowerLetters) \cup DigitChars

IsLowerAlnum(c) == c \in LowerAlnumChars

IsDigit(c) == c \in DigitChars

\* str.strip(): leading and trailing blanks removed.
RECURSIVE LStrip(_)
LStrip(s) == IF s # <<>> /\ Head(s) = " " THEN LStrip(Tail(s)) ELSE s

RECURSIVE RStrip(_)
RStrip(s) ==
    IF s # <<>> /\ s[Len(s)] = " " THEN RStrip(SubSeq(s, 1, Len(s) - 1)) ELSE s

Strip(s) == RStrip(LStrip(s))

\* s[-n:]
LastN(s, n) == IF Len(s) <= n THEN s ELSE SubSeq(s, Len(s) - n + 1, Len(s))

\* "a in b" on strings.
IsSubstring(a, b) ==
    \E k \in 0..(Len(b) - Len(a)) : SubSeq(b, k + 1, k + Len(a)) = a

(***************************************************************************)
(* Program constants.                                                      *)
(***************************************************************************)
\* Number of digits a phone key needs.
PHONE_KEY_DIGITS == 10
MAX_RETRIES == 5
BASE_BACKOFF == 10
CACHE_DURATION == 300
SHEET_UPDATE_DELAY == 3
REST_AFTER_LEADS == 10
REST_DURATION == 300
MAX_LEADS_PER_DAY == 50
MIN_DELAY_SECONDS == 15
MAX_DELAY_SECONDS == 45
RETRY_DELAY_SECONDS == 60
\* time.sleep(2) after a successful read.
READ_DELAY == 2

\* The character class \s of the regular expressions, as far as the names
\* of the model go.
SpaceChars == {" ", "\t"}

IsLowerAlnumOrSpace(c) == c \in LowerAlnumChars \cup SpaceChars

\* ' '.join(s.split()) but for a blank that may be left in front.
RECURSIVE JoinSplit(_)
JoinSplit(s) ==
    IF s = <<>> THEN <<>>
    ELSE IF Head(s) \in SpaceChars
         THEN LET rest == JoinSplit(Tail(s))
              IN  IF rest = <<>> \/ Head(rest) = " " THEN rest ELSE <<" ">> \o rest
         ELSE <<Head(s)>> \o JoinSplit(Tail(s))

\* normalize_text
NormalizeText(text) ==
    IF text = <<>> THEN <<>>
    ELSE LET cleaned == SelectSeq(LowerStr(text), IsLowerAlnumOrSpace)
             joined == JoinSplit(cleaned)
         IN  IF joined # <<>> /\ Head(joined) = " " THEN Tail(joined) ELSE joined

(***************************************************************************)
(* The duplicate key.                                                      *)
(***************************************************************************)
NoKey == [kind |-> "none", val |-> <<>>]

\* re.sub(r'[^a-z0-9]', '', name.lower())
NormalizeName(name) == SelectSeq(LowerStr(name), IsLowerAlnum)

\* ''.join(filter(str.isdigit, phone))[-10:] if phone else ""
KeyPhoneNorm(phone) ==
    IF phone # <<>> THEN LastN(SelectSeq(phone, IsDigit), PHONE_KEY_DIGITS) ELSE <<>>

\* A faulty variant of the key: the phone branch is dropped, so that the key is the
\* normalised name whenever there is one.
CreateDuplicateKeyNameOnly(name, phone) ==
    IF NormalizeName(name) # <<>>
    THEN [kind |-> "name", val |-> NormalizeName(name)]
    ELSE NoKey

\* DuplicateGuardian._create_duplicate_key
CreateDuplicateKey(name, phone) ==
    LET name_norm == NormalizeName(name)
        phone_norm == KeyPhoneNorm(phone)
    IN  IF phone_norm # <<>> /\ Len(phone_norm) = PHONE_KEY_DIGITS
        THEN [kind |-> "phone", val |-> phone_norm]
        ELSE IF name_norm # <<>>
             THEN [kind |-> "name", val |-> name_norm]
             ELSE NoKey

\* The key of a row of the RESULTS sheet, as the three phases compute it.
RowKey(row) == CreateDuplicateKey(Strip(row.name), Strip(row.phone))

\* A faulty variant of the scan: the last record of the sheet is not looked at.
MatchingPositionsButLast(rows, key) ==
    {p \in DOMAIN rows :
        p < Len(rows) /\ RowKey(rows[p]) # NoKey /\ RowKey(rows[p]) = key}

\* The rows that the scans of the three phases match with key: the positions
\* (1-based, header excluded) of the records whose key is key.
MatchingPositions(rows, key) ==
    {p \in DOMAIN rows : RowKey(rows[p]) # NoKey /\ RowKey(rows[p]) = key}

\* Sheet row number of the record at position p: idx + 2 with idx = p - 1.
RowNum(p) == p + 1

\* The elements of a finite set of numbers in increasing order.
RECURSIVE SortedSeq(_)
SortedSeq(S) ==
    IF S = {} THEN <<>>
    ELSE LET m == CHOOSE x \in S : \A y \in S : x <= y
         IN  <<m>> \o SortedSeq(S \ {m})

(***************************************************************************)
(* Text of the sheets.  A cell is a sequence of characters; the fixed      *)
(* texts of the source that are only copied and searched as a whole are    *)
(* single elements.                                                        *)
(***************************************************************************)
StPending == <<"P","e","n","d","i","n","g">>
\* f"Processing... {HH:MM:SS}": the time of day that follows is left out.
StProcessing == <<"P","r","o","c","e","s","s","i","n","g",".",".",".">>
StComplete == <<"C","o","m","p","l","e","t","e">>
StCompleteDuplicate == <<"C","o","m","p","l","e","t","e"," ","-"," ","D","u","p","l","i","c","a","t","e">>
NoNumber == <<"N","o"," ","N","u","m","b","e","r">>

\* A faulty variant of the selection: an item left in the processing state is taken
\* up again.
IsPendingOrProcessing(status) ==
    \/ LowerStr(Strip(status)) = <<"p","e","n","d","i","n","g">>
    \/ LowerStr(Strip(status)) = LowerStr(StProcessing)

\* status == "pending" after str(...).strip().lower()
IsPending(status) == LowerStr(Strip(status)) = <<"p","e","n","d","i","n","g">>

\* not target_url or target_url.lower() in ["no website found", "", "n/a"]
NoWebsite(target_url) ==
    \/ target_url = <<>>
    \/ LowerStr(target_url) \in {<<"n","o"," ","w","e","b","s","i","t","e"," ","f","o","u","n","d">>,
                                 <<>>, <<"n","/","a">>}

\* PreviewURLGuardian.BASE_URL followed by "/?client=".
BASE_URL == "https://lead-gen-engine.vercel.app/?client="
T_QUICK == "Quick note about "
T_PREVIEW == ". Preview: "
T_EMBED == " Preview: "
T_HI == "Hi, I noticed "
T_NOSITE == " doesn't have a website--that's costing you 60%+ of customers. Preview: "
T_LAUNCH == " Can I show you how to launch in 24 hours?"
T_FLAWNONE == "No website found. Cannot perform analysis."
T_FLAW == "Website analysis for "

\* len() of one element of a text.
ElemLen(e) ==
    CASE e = BASE_URL -> 43
      [] e = T_QUICK -> 17
      [] e = T_PREVIEW -> 11
      [] e = T_EMBED -> 10
      [] e = T_HI -> 14
      [] e = T_NOSITE -> 71
      [] e = T_LAUNCH -> 42
      [] e = T_FLAWNONE -> 42
      [] e = T_FLAW -> 21
      [] OTHER -> 1

\* The last character of one element of a text.
LastCharOf(e) ==
    CASE e = T_LAUNCH -> "?"
      [] e = T_FLAWNONE -> "."
      [] e \in {T_QUICK, T_PREVIEW, T_EMBED, T_HI, T_NOSITE, T_FLAW} -> " "
      [] e = BASE_URL -> "="
      [] OTHER -> e

\* str.endswith(('.', '!', '?'))
EndsWithStop(s) == s # <<>> /\ LastCharOf(s[Len(s)]) \in {".", "!", "?"}

RECURSIVE TextLen(_)
TextLen(s) == IF s = <<>> THEN 0 ELSE ElemLen(Head(s)) + TextLen(Tail(s))

\* re.sub(r'[^a-z0-9]+', '-', s): every maximal run of other characters
\* becomes one dash.  inRun tells whether the dash of the current run is
\* already written.
RECURSIVE DashRuns(_, _)
DashRuns(s, inRun) ==
    IF s = <<>> THEN <<>>
    ELSE IF IsLowerAlnum(Head(s))
         THEN <<Head(s)>> \o DashRuns(Tail(s), FALSE)
         ELSE IF inRun THEN DashRuns(Tail(s), TRUE)
              ELSE <<"-">> \o DashRuns(Tail(s), TRUE)

RECURSIVE LStripDash(_)
LStripDash(s) == IF s # <<>> /\ Head(s) = "-" THEN LStripDash(Tail(s)) ELSE s

RECURSIVE RStripDash(_)
RStripDash(s) ==
    IF s # <<>> /\ s[Len(s)] = "-" THEN RStripDash(SubSeq(s, 1, Len(s) - 1)) ELSE s

\* PreviewURLGuardian.phase1_generate
Phase1Generate(name) ==
    <<BASE_URL>> \o RStripDash(LStripDash(DashRuns(LowerStr(name), FALSE)))

\* A faulty variant of the embedding: the URL is added without a look at the
\* text.
Phase2EmbedAlways(ice_breaker, preview_url) ==
    (IF EndsWithStop(ice_breaker) THEN ice_breaker
     ELSE ice_breaker \o <<".">>) \o <<T_EMBED>> \o preview_url

\* PreviewURLGuardian.phase2_embed_in_icebreaker
Phase2EmbedInIcebreaker(ice_breaker, preview_url) ==
    IF IsSubstring(preview_url, ice_breaker) THEN ice_breaker
    ELSE (IF EndsWithStop(ice_breaker) THEN ice_breaker
          ELSE ice_breaker \o <<".">>) \o <<T_EMBED>> \o preview_url

\* The texts process_lead_fully_supervised produces for a lead.
FlawAnalysis(name, target_url) ==
    IF NoWebsite(target_url) THEN <<T_FLAWNONE>> ELSE <<T_FLAW>> \o name

IceBreaker(name, target_url, preview_url) ==
    Phase2EmbedInIcebreaker(
        IF NoWebsite(target_url)
        THEN <<T_HI>> \o name \o <<T_NOSITE>> \o preview_url \o <<T_LAUNCH>>
        ELSE <<T_QUICK>> \o name \o <<T_PREVIEW>> \o preview_url,
        preview_url)

\* LeadData.to_sheet_row: the cells of the RESULTS row that the engine reads
\* back (name, preview URL, phone, ice breaker).
ToSheetRow(name, phone, preview_url, ice_breaker) ==
    [name |-> name, phone |-> phone, url |-> preview_url, ice |-> ice_breaker]

\* DataIntegrityGuardian.validate_row_structure
ValidateRowStructure(name, flaw, preview_url, ice_breaker) ==
    /\ name # <<>>
    /\ flaw # <<>> /\ TextLen(flaw) >= 20
    /\ preview_url # <<>> /\ BASE_URL \in Range(preview_url)
    /\ ice_breaker # <<>> /\ TextLen(ice_breaker) >= 20
    /\ IsSubstring(preview_url, ice_breaker)


(***************************************************************************)
(* Sample data: names, phone numbers, leads and stored rows.               *)
(***************************************************************************)
NameA == <<"A","b">>
\* Same normalised name as NameA, another preview URL.
NameA2 == <<"A"," ","b">>
NameB == <<"B">>
\* A name without any letter or digit.
NameSym == <<"!","!">>
Phone1 == <<"9","8","7","6","5","4","3","2","1","0">>
\* Phone1 with the country code.
Phone1cc == <<"+","9","1","9","8","7","6","5","4","3","2","1","0">>
Phone2 == <<"9","1","2","3","4","5","6","7","8","0">>
PhoneShort == <<"1","2","3">>
SiteUrl == <<"h","t","t","p",":","/","/","x">>
NoSiteUrl == <<"N","/","A">>

MkLead(name, phone, url) ==
    [name |-> name, phone |-> phone, url |-> url, status |-> StPending]

LeadPool ==
    { MkLead(NameA2, Phone1cc, NoSiteUrl),
      MkLead(NameA, Phone2, SiteUrl),
      MkLead(NameB, <<>>, SiteUrl),
      MkLead(NameSym, PhoneShort, SiteUrl),
      MkLead(<<>>, Phone2, SiteUrl),
      MkLead(<<>>, PhoneShort, SiteUrl) }

\* The row the engine stores for (name, phone).
MkRow(name, phone) ==
    ToSheetRow(name, phone, Phase1Generate(name),
               IceBreaker(name, SiteUrl, Phase1Generate(name)))

RowPool == { MkRow(NameA, Phone2), MkRow(NameB, Phone1), MkRow(NameA2, Phone1) }

SeqsUpTo(S, n) == UNION {[1..k -> S] : k \in 0..n}

\* No two rows with the same key.
UniqueKeys(rows) ==
    \A p, q \in DOMAIN rows :
        (p # q /\ RowKey(rows[p]) # NoKey) => RowKey(rows[p]) # RowKey(rows[q])

(***************************************************************************)
(* State.                                                                  *)
(***************************************************************************)
VARIABLES
    leads,            \* the LEADS sheet: rows [name, phone, url, status]
    results,          \* the RESULTS sheet: rows [name, phone, url, ice]
    insts,            \* the engine instances that run
    faults,           \* store calls that may still fail in this run
    edits,            \* out-of-band edits that may still happen
    pc,               \* pc[i]: where instance i stands
    loc,              \* loc[i]: the locals of main and process_lead_fully_supervised
    registry,         \* registry[i]: DuplicateGuardian.registry["keys"]
    phone_map,        \* phone_map[i]: PhoneSyncGuardian.phone_map
    leads_since_rest, \* leads_since_rest[i]: RestManager.leads_since_rest
    cache,            \* cache[i]: SheetsCache.cache
    clock,            \* time.time()
    io,               \* the safe_sheet_read / safe_sheet_write call in progress
    remote,           \* version of the data behind the cached reads
    nap,              \* nap[i]: how the latest pass of the loop of main ended
    calc,             \* a pair of name and phone, and the keys computed for it
    mc,               \* the campaign scheduler and the daily logs
    ev,               \* ev[i]: what was done for the item instance i works on
    hist              \* history of the run, per LEADS row

vars == <<leads, results, insts, faults, edits, pc, loc, registry, phone_map,
          leads_since_rest, cache, clock, io, remote, nap, calc, mc,
          ev, hist>>


(***************************************************************************)
(* Helpers on the sheets.                                                  *)
(***************************************************************************)
BlankRow == [name |-> <<>>, phone |-> <<>>, url |-> <<>>, ice |-> <<>>]

\* worksheet.delete_rows(row_num): the rows below move up by one.  A row
\* number below the last row of data removes nothing.
DeleteRows(rows, row_num) ==
    IF row_num - 1 \in DOMAIN rows
    THEN SubSeq(rows, 1, row_num - 2) \o SubSeq(rows, row_num, Len(rows))
    ELSE rows

\* worksheet.update_cell(row_num, col, value) on the RESULTS sheet.  Writing
\* below the last row of data makes that row (and blank rows up to it) data.
UpdateCell(rows, row_num, col, value) ==
    LET p == row_num - 1
        padded == [k \in 1..(IF p > Len(rows) THEN p ELSE Len(rows)) |->
                      IF k <= Len(rows) THEN rows[k] ELSE BlankRow]
    IN  CASE col = 5 -> [padded EXCEPT ![p].url = value]
          [] col = 6 -> [padded EXCEPT ![p].phone = value]
          [] col = 16 -> [padded EXCEPT ![p].ice = value]

\* A faulty variant of the status write: the header row is not counted, and
\* the cell of the row above is written.
SetStatusNoHeader(ls, row_num, status) ==
    [ls EXCEPT ![IF row_num > 2 THEN row_num - 2 ELSE 1].status = status]

\* leads_worksheet.update_cell(lead_row_index, 6, status)
SetStatus(ls, row_num, status) == [ls EXCEPT ![row_num - 1].status = status]

\* A faulty variant of the selection: the last pending record is taken.
FirstPendingLast(ls) ==
    IF \E p \in DOMAIN ls : IsPending(ls[p].status)
    THEN CHOOSE p \in DOMAIN ls :
            /\ IsPending(ls[p].status)
            /\ \A q \in (p + 1)..Len(ls) : ~IsPending(ls[q].status)
    ELSE 0

\* A faulty variant of the selection: the for loop is left after the first
\* record, pending or not.
FirstPendingHead(ls) ==
    IF ls # <<>> /\ IsPending(ls[1].status) THEN 1 ELSE 0

\* The first record whose status is pending (0: none), as the for loop of
\* main finds it.
FirstPending(ls) ==
    IF \E p \in DOMAIN ls : IsPending(ls[p].status)
    THEN CHOOSE p \in DOMAIN ls :
            /\ IsPending(ls[p].status)
            /\ \A q \in 1..(p - 1) : ~IsPending(ls[q].status)
    ELSE 0

\* The first record of the RESULTS sheet with the normalised name of name
\* (0: none), as the verifications after the save find it.
FirstNameMatch(rows, name) ==
    LET hits == {p \in DOMAIN rows :
                    NormalizeName(Strip(rows[p].name)) = NormalizeName(name)}
    IN  IF hits = {} THEN 0 ELSE CHOOSE p \in hits : \A q \in hits : p <= q

\* PhoneSyncGuardian.phase1_build_map: normalised name -> phone, a later row
\* of the LEADS sheet replacing an earlier one.
BuildPhoneMap(ls) ==
    LET named == {p \in DOMAIN ls : Strip(ls[p].name) # <<>>}
        norm(p) == NormalizeName(Strip(ls[p].name))
        last(n) == CHOOSE p \in named :
                      /\ norm(p) = n
                      /\ \A q \in named : norm(q) = n => q <= p
    IN  [n \in {norm(p) : p \in named} |->
            IF Strip(ls[last(n)].phone) # <<>> THEN Strip(ls[last(n)].phone)
            ELSE NoNumber]

\* A faulty variant of the phone lookup: the phone of the lead is kept as it is.
Phase2GetCorrectPhoneRaw(map, name, provided_phone) ==
    IF provided_phone # <<>> THEN provided_phone ELSE NoNumber

\* PhoneSyncGuardian.phase2_get_correct_phone
Phase2GetCorrectPhone(map, name, provided_phone) ==
    IF NormalizeName(name) \in DOMAIN map THEN map[NormalizeName(name)]
    ELSE IF provided_phone # <<>> THEN provided_phone ELSE NoNumber

(***************************************************************************)
(* The cache.                                                              *)
(***************************************************************************)
EmptyCache == <<>>
NoCacheKey == "None"
CacheKeys == {"leads", "results"}

\* The value None, and a value that is not None.
None == <<>>
Some(data) == <<data>>

\* A faulty variant of the cache: an entry of the age CACHE_DURATION is still given.
CacheGetInclusive(c, key, now) ==
    IF key \in DOMAIN c /\ now - c[key].timestamp <= CACHE_DURATION
    THEN Some(c[key].data)
    ELSE None

\* SheetsCache.get: the data, or None.
CacheGet(c, key, now) ==
    IF key \in DOMAIN c /\ now - c[key].timestamp < CACHE_DURATION
    THEN Some(c[key].data)
    ELSE None

\* SheetsCache.set
CacheSet(c, key, data, now) ==
    [k \in DOMAIN c \cup {key} |->
        IF k = key THEN [data |-> data, timestamp |-> now] ELSE c[k]]

\* A faulty variant of safe_sheet_write: the cache is left as it is.
CacheAfterWriteKept(c, ok) == c

\* safe_sheet_write, its effect on the cache: a write that succeeds empties
\* it; one that exhausts its attempts raises before that.
CacheAfterWrite(c, ok) == IF ok THEN EmptyCache ELSE c


(***************************************************************************)
(* The engine: main and MasterOrchestrator.process_lead_fully_supervised.  *)
(* One action per call of the store; the local work between two calls is   *)
(* part of the action that follows the first.                              *)
(***************************************************************************)
NoFix == [row |-> 0, col5 |-> FALSE, col16 |-> FALSE, ice |-> <<>>]

NoLoc ==
    [row |-> 0, name |-> <<>>, phone_raw |-> <<>>, target_url |-> <<>>,
     correct_phone |-> <<>>, preview_url |-> <<>>, ice_breaker |-> <<>>,
     todo |-> <<>>, fix |-> NoFix, is_single |-> FALSE,
     phone_synced |-> FALSE, url_verified |-> FALSE, columns_ok |-> FALSE]

\* What the latest Phase-3 scan of an item saw: the number of matching rows,
\* the position of the first, and whether nobody else has edited the RESULTS
\* sheet since.
NoScan == [k |-> 0, first |-> 0, quiet |-> FALSE]

NoHist == [ev |-> {}, appends |-> 0, selects |-> 0, p3by |-> {}, scan |-> NoScan]

\* The results a call of the store can have: TRUE, it succeeds; FALSE, it
\* raises (a safe_sheet_* call: after its last attempt).
Outcomes == IF faults > 0 THEN {TRUE, FALSE} ELSE {TRUE}

Spend(ok) == faults' = IF ok THEN faults ELSE faults - 1

\* The events that end Phase 3.
Phase3Ends == {"p3_no_key", "p3_error", "p3_missing", "p3_verified", "p3_cleaned"}

\* The item instance i works on gets the events es, and scan as the record of
\* its latest Phase-3 scan.
Record(i, es, scan) ==
    /\ ev' = [ev EXCEPT ![i] = @ \cup es]
    /\ hist' = [hist EXCEPT
                  ![loc[i].row - 1].ev = @ \cup es,
                  ![loc[i].row - 1].p3by =
                      IF es \cap Phase3Ends # {} THEN @ \cup {i} ELSE @,
                  ![loc[i].row - 1].scan = scan]

\* The item instance i works on gets the events es.
Note(i, es) == Record(i, es, hist[loc[i].row - 1].scan)

\* Somebody else has edited the RESULTS sheet.
Disturbed == [r \in DOMAIN hist |-> [hist[r] EXCEPT !.scan.quiet = FALSE]]

\* A faulty variant of the branch after Phase 1: the verdict is ignored.
AfterPhase1Ignored(is_duplicate) == "markproc"

\* process_lead_fully_supervised, the branch on the verdict of Phase 1: a
\* duplicate is marked and left, anything else goes on.
AfterPhase1(is_duplicate) == IF is_duplicate THEN "markdup" ELSE "markproc"

\* process_lead_fully_supervised is left (return, or an exception that main
\* catches): the loop of main goes on.
BackToLoop(i) == pc' = [pc EXCEPT ![i] = "loop"]

\* How a pass of the loop of main ends: what main logs and how long it
\* sleeps; rests counts the rest pauses of the run.
NoNap == [how |-> "none", log |-> "", secs |-> 0, rests |-> 0]

\* process_lead_fully_supervised has returned False: the pass ends at once.
Returned == [NoNap EXCEPT !.how = "returned"]

\* No lead is pending: main sleeps RETRY_DELAY_SECONDS.
Idle == [NoNap EXCEPT !.how = "idle", !.secs = RETRY_DELAY_SECONDS]

\* A faulty variant of the handler: the exception is logged, and the next
\* pass starts without a sleep.
CaughtNoSleep == [NoNap EXCEPT !.how = "caught", !.log = "MainLoop:error"]

\* main, except Exception: the exception is logged and main sleeps
\* RETRY_DELAY_SECONDS.
Caught ==
    [NoNap EXCEPT !.how = "caught", !.log = "MainLoop:error",
                  !.secs = RETRY_DELAY_SECONDS]

\* A faulty variant of the delays: main does not wait after a success.
PaceDelaysNone == {0}

\* random.randint(MIN_DELAY_SECONDS, MAX_DELAY_SECONDS): the two ends of the
\* range and a value in between.
PaceDelays ==
    {MIN_DELAY_SECONDS, (MIN_DELAY_SECONDS + MAX_DELAY_SECONDS) \div 2,
     MAX_DELAY_SECONDS}

\* process_lead_fully_supervised has returned True: main sleeps d seconds.
Paced(d) == [NoNap EXCEPT !.how = "paced", !.secs = d]

\* The pass of instance i ends as e says.
EndPass(i, e) == nap' = [nap EXCEPT ![i] = [e EXCEPT !.rests = nap[i].rests]]

IOUnchanged == UNCHANGED <<clock, io, remote, calc, mc>>

\* MasterOrchestrator.__init__: the phone map is built; a read that fails
\* leaves it empty.
Start(i) ==
    /\ pc[i] = "start"
    /\ \E ok \in Outcomes :
        /\ Spend(ok)
        /\ phone_map' = [phone_map EXCEPT ![i] =
                            IF ok THEN BuildPhoneMap(leads) ELSE <<>>]
    /\ BackToLoop(i)
    /\ UNCHANGED <<leads, results, insts, edits, loc, registry,
                   leads_since_rest, cache, nap, ev, hist>>
    /\ IOUnchanged

\* A faulty variant of the rest check: the rest comes one lead late.
ShouldRestLate(leads_since_rest_i) == leads_since_rest_i > REST_AFTER_LEADS

\* RestManager.should_rest
ShouldRest(leads_since_rest_i) == leads_since_rest_i >= REST_AFTER_LEADS

\* main, one pass of the while loop up to the call of
\* process_lead_fully_supervised: rest check (a rest of REST_DURATION seconds
\* sets the counter back to 0), fetch of the leads, choice of the first
\* pending one.  When the fetch raises, main logs the exception and sleeps;
\* when no lead is pending, main sleeps.
FetchLeads(i) ==
    /\ pc[i] = "loop"
    /\ leads_since_rest' = [leads_since_rest EXCEPT ![i] =
                               IF ShouldRest(@) THEN 0 ELSE @]
    /\ \E ok \in Outcomes, p \in {FirstPending(leads)} :
        /\ Spend(ok)
        /\ nap' = [nap EXCEPT ![i] =
                      [(CASE ~ok -> Caught
                          [] ok /\ p = 0 -> Idle
                          [] OTHER -> NoNap)
                       EXCEPT !.rests = IF ShouldRest(leads_since_rest[i])
                                        THEN nap[i].rests + 1
                                        ELSE nap[i].rests]]
        /\ IF ok /\ p # 0
           THEN /\ pc' = [pc EXCEPT ![i] = "phase1"]
                /\ loc' = [loc EXCEPT ![i] =
                              [NoLoc EXCEPT !.row = RowNum(p),
                                            !.name = Strip(leads[p].name),
                                            !.phone_raw = Strip(leads[p].phone),
                                            !.target_url = Strip(leads[p].url)]]
                /\ ev' = [ev EXCEPT ![i] = {}]
                /\ hist' = [hist EXCEPT ![p].selects = @ + 1]
           ELSE /\ pc' = pc
                /\ loc' = [loc EXCEPT ![i] = NoLoc]
                /\ UNCHANGED <<ev, hist>>
    /\ UNCHANGED <<leads, results, insts, edits, registry, phone_map, cache>>
    /\ IOUnchanged

\* DuplicateGuardian.phase1_check_before, and the branch of
\* process_lead_fully_supervised on its result.
Phase1CheckBefore(i) ==
    /\ pc[i] = "phase1"
    /\ LET dup_key == CreateDuplicateKey(loc[i].name, loc[i].phone_raw) IN
       IF dup_key = NoKey
       THEN /\ pc' = [pc EXCEPT ![i] = AfterPhase1(FALSE)]
            /\ Note(i, {"p1_no_key"})
            /\ UNCHANGED <<registry, faults>>
       ELSE IF dup_key \in registry[i]
       THEN /\ pc' = [pc EXCEPT ![i] = AfterPhase1(TRUE)]
            /\ Note(i, {"p1_dup", "p1_registry"})
            /\ UNCHANGED <<registry, faults>>
       ELSE \E ok \in Outcomes :
            /\ Spend(ok)
            /\ IF ok /\ MatchingPositions(results, dup_key) # {}
               THEN /\ registry' = [registry EXCEPT ![i] = @ \cup {dup_key}]
                    /\ pc' = [pc EXCEPT ![i] = AfterPhase1(TRUE)]
                    /\ Note(i, {"p1_dup", "p1_sheet"})
               ELSE /\ pc' = [pc EXCEPT ![i] = AfterPhase1(FALSE)]
                    /\ Note(i, {IF ok THEN "p1_passed" ELSE "p1_error"})
                    /\ UNCHANGED registry
    /\ UNCHANGED <<leads, results, insts, edits, loc, phone_map,
                   leads_since_rest, cache, nap>>
    /\ IOUnchanged

\* process_lead_fully_supervised, "Mark duplicate" after Phase 1 or Phase 2:
\* the write either succeeds and the function returns False, or it raises and
\* main catches the exception.
MarkDuplicate(i) ==
    /\ pc[i] = "markdup"
    /\ \E ok \in Outcomes :
        /\ Spend(ok)
        /\ leads' = IF ok THEN SetStatus(leads, loc[i].row, StCompleteDuplicate)
                    ELSE leads
        /\ cache' = [cache EXCEPT ![i] = CacheAfterWrite(@, ok)]
        /\ Note(i, {IF ok THEN "marked_dup" ELSE "raised"})
        /\ EndPass(i, IF ok THEN Returned ELSE Caught)
    /\ BackToLoop(i)
    /\ UNCHANGED <<results, insts, edits, loc, registry, phone_map,
                   leads_since_rest>>
    /\ IOUnchanged

\* process_lead_fully_supervised from the phone lookup to the validation:
\* "Mark processing" (whatever the write raises is swallowed), the texts of
\* the lead, validate_row_structure, the backup.  written: the cell has been
\* updated; cache_i: the cache after the write; es: what else happened.
MarkProcessingWith(i, written, cache_i, es) ==
    /\ \E correct_phone \in
               {Phase2GetCorrectPhone(phone_map[i], loc[i].name, loc[i].phone_raw)},
          preview_url \in {Phase1Generate(loc[i].name)},
          flaw_analysis \in {FlawAnalysis(loc[i].name, loc[i].target_url)} :
       \E ice_breaker \in
               {IceBreaker(loc[i].name, loc[i].target_url, preview_url)} :
       \E valid \in {ValidateRowStructure(loc[i].name, flaw_analysis,
                                          preview_url, ice_breaker)} :
       /\ leads' = IF written THEN SetStatus(leads, loc[i].row, StProcessing)
                   ELSE leads
       /\ cache' = [cache EXCEPT ![i] = cache_i]
       /\ Note(i, (IF written THEN {"marked_processing"} ELSE {})
                  \cup {"generated"} \cup es
                  \cup (IF valid THEN {} ELSE {"invalid"}))
       /\ loc' = [loc EXCEPT ![i].correct_phone = correct_phone,
                             ![i].preview_url = preview_url,
                             ![i].ice_breaker = ice_breaker]
       /\ pc' = [pc EXCEPT ![i] = IF valid THEN "phase2" ELSE "loop"]
       /\ IF valid THEN UNCHANGED nap ELSE EndPass(i, Returned)
    /\ UNCHANGED <<results, insts, edits, registry, phone_map, leads_since_rest>>
    /\ IOUnchanged

MarkProcessing(i) ==
    /\ pc[i] = "markproc"
    /\ \E ok \in Outcomes :
        /\ Spend(ok)
        /\ MarkProcessingWith(i, ok, CacheAfterWrite(cache[i], ok), {})

\* DuplicateGuardian.phase2_check_during, and the branch on its result.  The
\* scan is one unguarded get_all_records(); when it raises the phase answers
\* (False, "error").
Phase2CheckDuring(i) ==
    /\ pc[i] = "phase2"
    /\ LET dup_key == CreateDuplicateKey(loc[i].name, loc[i].correct_phone) IN
       IF dup_key = NoKey
       THEN /\ pc' = [pc EXCEPT ![i] = "save"]
            /\ Note(i, {"p2_no_key"})
            /\ UNCHANGED faults
       ELSE \E ok \in Outcomes :
            /\ Spend(ok)
            /\ IF ok /\ MatchingPositions(results, dup_key) # {}
               THEN /\ pc' = [pc EXCEPT ![i] = "markdup"]
                    /\ Note(i, {"p2_dup"})
               ELSE /\ pc' = [pc EXCEPT ![i] = "save"]
                    /\ Note(i, {IF ok THEN "p2_passed" ELSE "p2_error"})
    /\ UNCHANGED <<leads, results, insts, edits, loc, registry, phone_map,
                   leads_since_rest, cache, nap>>
    /\ IOUnchanged

\* process_lead_fully_supervised, "Save lead data".
Save(i) ==
    /\ pc[i] = "save"
    /\ \E ok \in Outcomes :
        /\ Spend(ok)
        /\ results' = IF ok
                      THEN Append(results,
                                  ToSheetRow(loc[i].name, loc[i].correct_phone,
                                             loc[i].preview_url, loc[i].ice_breaker))
                      ELSE results
        /\ cache' = [cache EXCEPT ![i] = CacheAfterWrite(@, ok)]
        /\ pc' = [pc EXCEPT ![i] = IF ok THEN "phase3" ELSE "loop"]
        /\ IF ok THEN UNCHANGED nap ELSE EndPass(i, Returned)
        /\ ev' = [ev EXCEPT ![i] = @ \cup {IF ok THEN "appended" ELSE "save_failed"}]
        /\ hist' = [hist EXCEPT
                      ![loc[i].row - 1].ev = @ \cup {IF ok THEN "appended" ELSE "save_failed"},
                      ![loc[i].row - 1].appends = IF ok THEN @ + 1 ELSE @]
    /\ UNCHANGED <<leads, insts, edits, loc, registry, phone_map, leads_since_rest>>
    /\ IOUnchanged


\* A variant of the clean-up list: the row numbers are taken from the last
\* match down, so that no deletion moves a row that is still to be deleted.
CleanupRowsDescending(matches) ==
    [k \in 1..(Len(matches) - 1) |-> RowNum(matches[Len(matches) + 1 - k])]

\* DuplicateGuardian.phase3_verify_after: the row numbers of matches[1:], in
\* the order of the scan.
CleanupRows(matches) ==
    [k \in 1..(Len(matches) - 1) |-> RowNum(matches[k + 1])]

\* DuplicateGuardian.phase3_verify_after up to the first deletion: the scan
\* (one unguarded get_all_records()) and the count of the matches.
Phase3VerifyAfter(i) ==
    /\ pc[i] = "phase3"
    /\ LET dup_key == CreateDuplicateKey(loc[i].name, loc[i].correct_phone)
           matches == SortedSeq(MatchingPositions(results, dup_key))
       IN
       IF dup_key = NoKey
       THEN /\ loc' = [loc EXCEPT ![i].is_single = TRUE]
            /\ pc' = [pc EXCEPT ![i] = "sync"]
            /\ Note(i, {"p3_no_key"})
            /\ UNCHANGED <<registry, faults>>
       ELSE \E ok \in Outcomes :
            /\ Spend(ok)
            /\ CASE ~ok ->
                      /\ loc' = [loc EXCEPT ![i].is_single = FALSE]
                      /\ pc' = [pc EXCEPT ![i] = "sync"]
                      /\ Note(i, {"p3_error"})
                      /\ UNCHANGED registry
                 [] ok /\ Len(matches) = 0 ->
                      /\ loc' = [loc EXCEPT ![i].is_single = FALSE]
                      /\ pc' = [pc EXCEPT ![i] = "sync"]
                      /\ Record(i, {"p3_missing"}, [NoScan EXCEPT !.quiet = TRUE])
                      /\ UNCHANGED registry
                 [] ok /\ Len(matches) = 1 ->
                      /\ loc' = [loc EXCEPT ![i].is_single = TRUE]
                      /\ registry' = [registry EXCEPT ![i] = @ \cup {dup_key}]
                      /\ pc' = [pc EXCEPT ![i] = "sync"]
                      /\ Record(i, {"p3_verified"},
                                [k |-> 1, first |-> matches[1], quiet |-> TRUE])
                 [] ok /\ Len(matches) > 1 ->
                      /\ loc' = [loc EXCEPT ![i].todo = CleanupRows(matches)]
                      /\ pc' = [pc EXCEPT ![i] = "cleanup"]
                      /\ Record(i, {"p3_duplicates"},
                                [k |-> Len(matches), first |-> matches[1],
                                 quiet |-> TRUE])
                      /\ UNCHANGED registry
    /\ UNCHANGED <<leads, results, insts, edits, phone_map, leads_since_rest,
                   cache, nap>>
    /\ IOUnchanged

\* DuplicateGuardian.phase3_verify_after, one pass of the clean-up loop: an
\* unguarded delete_rows(row_num); a failure is logged and the loop goes on.
\* After the last pass the phase answers (True, "cleaned").
Phase3Cleanup(i) ==
    /\ pc[i] = "cleanup"
    /\ loc[i].todo # <<>>
    /\ \E ok \in Outcomes :
        /\ Spend(ok)
        /\ results' = IF ok THEN DeleteRows(results, Head(loc[i].todo)) ELSE results
    /\ loc' = [loc EXCEPT ![i].todo = Tail(@),
                          ![i].is_single = (Tail(loc[i].todo) = <<>>)]
    /\ pc' = [pc EXCEPT ![i] = IF Tail(loc[i].todo) = <<>> THEN "sync" ELSE "cleanup"]
    /\ Note(i, IF Tail(loc[i].todo) = <<>> THEN {"p3_cleaned"} ELSE {})
    /\ UNCHANGED <<leads, insts, edits, registry, phone_map, leads_since_rest,
                   cache, nap>>
    /\ IOUnchanged

\* PhoneSyncGuardian.phase3_verify_sync, the scan.
Phase3VerifySync(i) ==
    /\ pc[i] = "sync"
    /\ \E ok \in Outcomes :
        /\ Spend(ok)
        /\ LET p == FirstNameMatch(results, loc[i].name) IN
           CASE ~ok \/ p = 0 ->
                  /\ loc' = [loc EXCEPT ![i].phone_synced = FALSE]
                  /\ pc' = [pc EXCEPT ![i] = "urlv"]
             [] ok /\ p # 0 /\ Strip(results[p].phone) = loc[i].correct_phone ->
                  /\ loc' = [loc EXCEPT ![i].phone_synced = TRUE]
                  /\ pc' = [pc EXCEPT ![i] = "urlv"]
             [] ok /\ p # 0 /\ Strip(results[p].phone) # loc[i].correct_phone ->
                  /\ loc' = [loc EXCEPT ![i].fix = [NoFix EXCEPT !.row = RowNum(p)]]
                  /\ pc' = [pc EXCEPT ![i] = "syncfix"]
    /\ UNCHANGED <<leads, results, insts, edits, registry, phone_map,
                   leads_since_rest, cache, nap, ev, hist>>
    /\ IOUnchanged

\* PhoneSyncGuardian.phase3_verify_sync, "Fix it": an unguarded
\* update_cell(row_num, 6, expected_phone).
Phase3FixPhone(i) ==
    /\ pc[i] = "syncfix"
    /\ \E ok \in Outcomes :
        /\ Spend(ok)
        /\ results' = IF ok
                      THEN UpdateCell(results, loc[i].fix.row, 6, loc[i].correct_phone)
                      ELSE results
        /\ loc' = [loc EXCEPT ![i].phone_synced = ok, ![i].fix = NoFix]
        /\ Note(i, IF ok THEN {"fixed_phone"} ELSE {})
    /\ pc' = [pc EXCEPT ![i] = "urlv"]
    /\ UNCHANGED <<leads, insts, edits, registry, phone_map, leads_since_rest,
                   cache, nap>>
    /\ IOUnchanged

\* PreviewURLGuardian.phase3_verify_saved, the scan.
Phase3VerifySaved(i) ==
    /\ pc[i] = "urlv"
    /\ \E ok \in Outcomes :
        /\ Spend(ok)
        /\ \E p \in {FirstNameMatch(results, loc[i].name)} :
           \E in_column \in {p # 0 /\ IsSubstring(loc[i].preview_url,
                                                  Strip(results[p].url))},
              in_ice \in {p # 0 /\ IsSubstring(loc[i].preview_url,
                                               Strip(results[p].ice))} :
           CASE ~ok \/ p = 0 ->
                  /\ loc' = [loc EXCEPT ![i].url_verified = FALSE]
                  /\ pc' = [pc EXCEPT ![i] = "cols"]
             [] ok /\ p # 0 /\ in_column /\ in_ice ->
                  /\ loc' = [loc EXCEPT ![i].url_verified = TRUE]
                  /\ pc' = [pc EXCEPT ![i] = "cols"]
             [] ok /\ p # 0 /\ ~(in_column /\ in_ice) ->
                  /\ loc' = [loc EXCEPT ![i].fix =
                                [row |-> RowNum(p), col5 |-> ~in_column,
                                 col16 |-> ~in_ice, ice |-> Strip(results[p].ice)]]
                  /\ pc' = [pc EXCEPT ![i] = "urlfix"]
    /\ UNCHANGED <<leads, results, insts, edits, registry, phone_map,
                   leads_since_rest, cache, nap, ev, hist>>
    /\ IOUnchanged

\* PreviewURLGuardian.phase3_verify_saved, "Fix it": the next unguarded
\* update_cell of the two (column 5, then column 16); the first that raises
\* ends the phase with False.
Phase3FixUrl(i) ==
    /\ pc[i] = "urlfix"
    /\ LET f == loc[i].fix
           col == IF f.col5 THEN 5 ELSE 16
           value == IF f.col5 THEN loc[i].preview_url
                    ELSE Phase2EmbedInIcebreaker(f.ice, loc[i].preview_url)
           more == f.col5 /\ f.col16
       IN
       \E ok \in Outcomes :
        /\ Spend(ok)
        /\ results' = IF ok THEN UpdateCell(results, f.row, col, value) ELSE results
        /\ IF ok /\ more
           THEN /\ loc' = [loc EXCEPT ![i].fix.col5 = FALSE]
                /\ pc' = pc
           ELSE /\ loc' = [loc EXCEPT ![i].url_verified = ok, ![i].fix = NoFix]
                /\ pc' = [pc EXCEPT ![i] = "cols"]
        /\ Note(i, IF ok THEN {"fixed_url"} ELSE {})
    /\ UNCHANGED <<leads, insts, edits, registry, phone_map, leads_since_rest,
                   cache, nap>>
    /\ IOUnchanged

\* DataIntegrityGuardian.verify_saved_columns
VerifySavedColumns(rows, name, phone, preview_url) ==
    LET p == FirstNameMatch(rows, name) IN
    /\ p # 0
    /\ rows[p].name = name
    /\ rows[p].url = preview_url
    /\ rows[p].phone = phone
    /\ IsSubstring(preview_url, rows[p].ice)

\* process_lead_fully_supervised from verify_saved_columns to the test of
\* all_verified; when it fails the function returns False.
VerifyColumns(i) ==
    /\ pc[i] = "cols"
    /\ \E ok \in Outcomes :
        /\ Spend(ok)
        /\ \E columns_ok \in
                   {ok /\ VerifySavedColumns(results, loc[i].name,
                                             loc[i].correct_phone,
                                             loc[i].preview_url)} :
           LET all_verified == /\ loc[i].is_single /\ loc[i].phone_synced
                               /\ loc[i].url_verified /\ columns_ok
           IN
           /\ loc' = [loc EXCEPT ![i].columns_ok = columns_ok]
           /\ pc' = [pc EXCEPT ![i] = IF all_verified THEN "complete" ELSE "loop"]
           /\ Note(i, IF all_verified THEN {"all_verified"} ELSE {"not_verified"})
           /\ IF all_verified THEN UNCHANGED nap ELSE EndPass(i, Returned)
    /\ UNCHANGED <<leads, results, insts, edits, registry, phone_map,
                   leads_since_rest, cache>>
    /\ IOUnchanged

\* process_lead_fully_supervised, "Mark complete": the write either succeeds
\* (the rest counter rises, the function returns True and main sleeps a
\* random delay) or raises, and main catches the exception.
MarkComplete(i) ==
    /\ pc[i] = "complete"
    /\ \E ok \in Outcomes :
        /\ Spend(ok)
        /\ leads' = IF ok THEN SetStatus(leads, loc[i].row, StComplete) ELSE leads
        /\ cache' = [cache EXCEPT ![i] = CacheAfterWrite(@, ok)]
        /\ leads_since_rest' = [leads_since_rest EXCEPT ![i] = IF ok THEN @ + 1 ELSE @]
        /\ Note(i, {IF ok THEN "marked_complete" ELSE "raised"})
        /\ IF ok THEN \E d \in PaceDelays : EndPass(i, Paced(d))
                 ELSE EndPass(i, Caught)
    /\ BackToLoop(i)
    /\ UNCHANGED <<results, insts, edits, loc, registry, phone_map>>
    /\ IOUnchanged


(***************************************************************************)
(* Out-of-band actors on the RESULTS sheet (another writer, a person at    *)
(* the spreadsheet): a row is deleted, or a copy of a row is added.        *)
(***************************************************************************)
ExternalDelete ==
    /\ edits > 0
    /\ \E p \in DOMAIN results :
        results' = DeleteRows(results, RowNum(p))
    /\ edits' = edits - 1
    /\ hist' = Disturbed
    /\ UNCHANGED <<leads, insts, faults, pc, loc, registry, phone_map,
                   leads_since_rest, cache, nap, ev>>
    /\ IOUnchanged

ExternalCopy ==
    /\ edits > 0
    /\ \E p \in DOMAIN results :
        results' = Append(results, results[p])
    /\ edits' = edits - 1
    /\ hist' = Disturbed
    /\ UNCHANGED <<leads, insts, faults, pc, loc, registry, phone_map,
                   leads_since_rest, cache, nap, ev>>
    /\ IOUnchanged

(***************************************************************************)
(* The manual interrupt (KeyboardInterrupt).                               *)
(***************************************************************************)
\* The interrupt arrives while instance i is in a pass of the loop of main,
\* outside the try block of "Mark processing": no handler on the way catches
\* it (the phases catch Exception only), main leaves the loop.
Interrupt(i) ==
    /\ pc[i] \notin {"start", "stopped"}
    /\ pc' = [pc EXCEPT ![i] = "stopped"]
    /\ ev' = [ev EXCEPT ![i] = @ \cup {"interrupt"}]
    /\ UNCHANGED <<leads, results, insts, faults, edits, loc, registry,
                   phone_map, leads_since_rest, cache, nap, hist>>
    /\ IOUnchanged

\* The interrupt arrives inside the try block of "Mark processing", before
\* the cell is updated or in the sleep that follows the update: the bare
\* except swallows it, safe_sheet_write has not emptied the cache, and
\* process_lead_fully_supervised goes on.
InterruptSwallowed(i) ==
    /\ pc[i] = "markproc"
    /\ Cardinality({r \in DOMAIN hist : "interrupt_swallowed" \in hist[r].ev})
           < MaxSwallowed
    /\ UNCHANGED faults
    /\ \E written \in BOOLEAN :
        MarkProcessingWith(i, written, cache[i], {"interrupt_swallowed"})

(***************************************************************************)
(* The key of one pair: _create_duplicate_key on its own.                  *)
(***************************************************************************)
\* No pair is at hand: calc holds the pair the key is computed for, the
\* keys computed for it so far, and what normalize_phone has returned for its
\* phone.
NoCalc ==
    [name |-> <<>>, phone |-> <<>>, keys |-> <<>>, norm |-> <<>>,
     ice |-> <<>>, url |-> <<>>, embeds |-> <<>>, issue |-> <<>>]

\* The engine and the safe layer take no step.
QuietUnchanged ==
    UNCHANGED <<leads, results, insts, faults, edits, pc, loc, registry,
                phone_map, leads_since_rest, cache, clock, io, remote, nap,
                ev, hist>>

\* _create_duplicate_key is called on the pair once more.
ComputeKey ==
    /\ Len(calc.keys) < MaxKeyCalls
    /\ calc' = [calc EXCEPT !.keys = Append(@, CreateDuplicateKey(calc.name, calc.phone))]
    /\ UNCHANGED mc
    /\ QuietUnchanged

\* A faulty variant of normalize_phone: the first ten digits are kept.
NormalizePhoneFirst(phone) ==
    IF phone = <<>> THEN <<>>
    ELSE LET digits == SelectSeq(phone, IsDigit)
         IN  IF Len(digits) >= PHONE_KEY_DIGITS
             THEN SubSeq(digits, 1, PHONE_KEY_DIGITS) ELSE digits

\* normalize_phone
NormalizePhone(phone) ==
    IF phone = <<>> THEN <<>>
    ELSE LET digits == SelectSeq(phone, IsDigit)
         IN  IF Len(digits) >= PHONE_KEY_DIGITS
             THEN LastN(digits, PHONE_KEY_DIGITS) ELSE digits

\* normalize_phone is called on the phone of the pair.
NormalizeContact ==
    /\ calc.norm = <<>>
    /\ calc' = [calc EXCEPT !.norm = Some(NormalizePhone(calc.phone))]
    /\ UNCHANGED mc
    /\ QuietUnchanged

\* phase2_embed_in_icebreaker is called once more: on the ice breaker of the
\* pair, then on the text the call before returned, with the same URL.
EmbedPreview ==
    /\ Len(calc.embeds) < MaxEmbedCalls
    /\ calc.issue = <<>>
    /\ LET ice_breaker == IF calc.embeds = <<>> THEN calc.ice
                          ELSE calc.embeds[Len(calc.embeds)]
       IN  calc' = [calc EXCEPT
                      !.embeds = Append(@, Phase2EmbedInIcebreaker(ice_breaker, calc.url))]
    /\ UNCHANGED mc
    /\ QuietUnchanged

\* validate_row_structure looks at the ice breaker the embedding returned:
\* issue tells whether it adds "Preview URL not in ice breaker".
ValidatePreview ==
    /\ calc.embeds # <<>>
    /\ calc.issue = <<>>
    /\ calc' = [calc EXCEPT
                  !.issue = Some(~IsSubstring(calc.url, calc.embeds[Len(calc.embeds)]))]
    /\ UNCHANGED mc
    /\ QuietUnchanged

(***************************************************************************)
(* The daily logs: the campaign scheduler (src/master_control.py) and the  *)
(* daily tracking functions of the processor.  Time is the local time in   *)
(* seconds; a date is the number of its day, "" is the empty sequence.     *)
(***************************************************************************)
MAX_CAMPAIGNS_PER_DAY == 5
LOOP_DELAY == 60
CAMPAIGN_SUCCESS_DELAY == 1800
CAMPAIGN_FAILURE_DELAY == 300
HUNTER_TIMEOUT == 1800
\* time.sleep(3) of process_campaign
SHEET_SETTLE_DELAY == 3

\* timedelta(days=1), in seconds
SecondsPerDay == 86400
\* replace(hour=0, minute=1, second=0), in seconds after midnight
WakeSecond == 60

\* datetime.now().strftime("%Y-%m-%d")
Today(now) == <<now \div SecondsPerDay>>

NoDate == <<>>

\* The file is missing or unreadable.
NoFile == <<>>

\* load_campaign_log
LoadCampaignLog(file) ==
    IF file = NoFile THEN [date |-> NoDate, processed_count |-> 0] ELSE file[1]

\* A faulty variant of the reset: the date is set, the count is kept.
ResetIfNewDayKeepCount(log_data, now) ==
    IF log_data.date # Today(now)
    THEN [log_data EXCEPT !.date = Today(now)]
    ELSE log_data

\* reset_if_new_day
ResetIfNewDay(log_data, now) ==
    IF log_data.date # Today(now)
    THEN [log_data EXCEPT !.date = Today(now), !.processed_count = 0]
    ELSE log_data

\* A faulty variant of the sleep: until midnight.
SleepSecondsToMidnight(now) ==
    ((now \div SecondsPerDay) + 1) * SecondsPerDay - now

\* check_daily_limit, sleep_seconds: from now until 00:01:00 of the next day.
SleepSeconds(now) ==
    LET tomorrow == ((now \div SecondsPerDay) + 1) * SecondsPerDay + WakeSecond
    IN  tomorrow - now

\* A faulty variant of the count: a campaign is counted twice.
IncrementCampaignCountTwice(file, now) ==
    LET campaign_log == ResetIfNewDay(LoadCampaignLog(file), now)
    IN  <<[campaign_log EXCEPT !.processed_count = @ + 2]>>

\* increment_campaign_count: the file it saves.
IncrementCampaignCount(file, now) ==
    LET campaign_log == ResetIfNewDay(LoadCampaignLog(file), now)
    IN  <<[campaign_log EXCEPT !.processed_count = @ + 1]>>

\* load_daily_log
LoadDailyLog(file) ==
    IF file = NoFile
    THEN [date |-> NoDate, processed_count |-> 0, last_processed |-> <<>>]
    ELSE file[1]

\* reset_daily_count_if_new_day: the log it returns; it saves the log when
\* it has reset it.
ResetDailyCountIfNewDay(log_data, now) ==
    IF log_data.date # Today(now)
    THEN [log_data EXCEPT !.date = Today(now), !.processed_count = 0,
                          !.last_processed = <<>>]
    ELSE log_data

\* What the latest call of check_daily_limit did: the log it loaded, the
\* time of the call, the log after reset_if_new_day, the time it slept and
\* its result.
NoCheck ==
    [done |-> FALSE, loaded |-> LoadCampaignLog(NoFile), at |-> 0,
     campaign_log |-> LoadCampaignLog(NoFile), sleep_seconds |-> 0,
     result |-> TRUE]

\* What the latest call of reset_daily_count_if_new_day did.
NoReset ==
    [done |-> FALSE, loaded |-> LoadDailyLog(NoFile), today |-> NoDate,
     log_data |-> LoadDailyLog(NoFile)]

\* The scheduler does not run.
NoMC ==
    [pc |-> "off", now |-> 0, file |-> NoFile, check |-> NoCheck,
     slack |-> 0, daily_file |-> NoFile, reset |-> NoReset,
     sheet |-> <<>>, ufaults |-> 0, hunts |-> <<>>]

\* process_campaign up to the return of check_daily_limit, and, when the
\* limit is reached, the rest of the pass of main_loop: process_campaign
\* returns False and main_loop sleeps LOOP_DELAY seconds.
CheckDailyLimit ==
    /\ mc.pc = "cycle"
    /\ mc.now < MaxDay * SecondsPerDay
    /\ LET loaded == LoadCampaignLog(mc.file)
           campaign_log == ResetIfNewDay(loaded, mc.now)
           reached == campaign_log.processed_count >= MAX_CAMPAIGNS_PER_DAY
           sleep_seconds == IF reached THEN SleepSeconds(mc.now) ELSE 0
       IN  mc' = [mc EXCEPT
                    !.check = [done |-> TRUE, loaded |-> loaded, at |-> mc.now,
                               campaign_log |-> campaign_log,
                               sleep_seconds |-> sleep_seconds,
                               result |-> ~reached],
                    !.now = IF reached THEN @ + sleep_seconds + LOOP_DELAY ELSE @,
                    !.pc = IF reached THEN "cycle" ELSE "work"]
    /\ UNCHANGED calc
    /\ QuietUnchanged

\* How long the hunter script runs.
HunterTimes == {1, HUNTER_TIMEOUT}

\* process_campaign after the check found capacity, and the sleep of
\* main_loop after it: no connection or no campaign (the pass ends at once),
\* a campaign that succeeds (its status is written, the count is raised and
\* saved), a campaign that fails.
RunCampaign ==
    /\ mc.pc = "work"
    /\ \E outcome \in {"nothing", "success", "failure"} :
       \E hunter \in HunterTimes :
        /\ outcome # "success" => mc.slack > 0
        /\ outcome = "nothing" => hunter = 1
        /\ LET ended == mc.now + hunter + SHEET_SETTLE_DELAY IN
           mc' = [mc EXCEPT
                    !.pc = "cycle",
                    !.slack = IF outcome = "success" THEN @ ELSE @ - 1,
                    !.file = IF outcome = "success"
                             THEN IncrementCampaignCount(@, ended) ELSE @,
                    !.now = CASE outcome = "nothing" -> @ + LOOP_DELAY
                              [] outcome = "success" ->
                                   ended + CAMPAIGN_SUCCESS_DELAY + LOOP_DELAY
                              [] OTHER ->
                                   ended + CAMPAIGN_FAILURE_DELAY + LOOP_DELAY]
    /\ UNCHANGED calc
    /\ QuietUnchanged

\* The daily tracking of the processor: its log is loaded and handed to
\* reset_daily_count_if_new_day.
ResetDailyCount ==
    /\ mc.pc # "off"
    /\ LET loaded == LoadDailyLog(mc.daily_file)
           log_data == ResetDailyCountIfNewDay(loaded, mc.now)
       IN  mc' = [mc EXCEPT
                    !.reset = [done |-> TRUE, loaded |-> loaded,
                               today |-> Today(mc.now),
                               log_data |-> log_data],
                    !.daily_file = IF loaded.date # Today(mc.now)
                                   THEN <<log_data>> ELSE @]
    /\ UNCHANGED calc
    /\ QuietUnchanged

(***************************************************************************)
(* The CAMPAIGNS sheet of the scheduler: rows [area, status].  mc.sheet is *)
(* the sheet, mc.ufaults the writes to it that may still fail, mc.hunts    *)
(* the runs of the hunter script so far, each with the area (lower case),  *)
(* the sheet row, the result of the run and of the status update after it. *)
(***************************************************************************)
\* MAX_RETRIES of master_control.py
MC_MAX_RETRIES == 3
\* wait_time = (2 ** attempt) * 5 of update_campaign_status
STATUS_BACKOFF == 5

DuplicateSkipped == <<"Duplicate - Skipped">>

\* f"Complete - {new_leads} leads" if new_leads > 0 else "Complete - 0 leads"
\* str(n) for the counts of the model.
CountText == <<"1", "2">>

CompleteStatus(new_leads) ==
    <<"Complete - ", IF new_leads > 0 THEN CountText[new_leads] ELSE "0", " leads">>

\* f"Error - {message}"
ErrorStatus(message) == <<"Error - ", message>>

\* find_active_campaign, first pass: the areas (stripped, lower case) of the
\* rows that have a status and an area.
ProcessedAreas(rows) ==
    { LowerStr(Strip(rows[p].area)) :
        p \in {q \in DOMAIN rows : /\ Strip(rows[q].status) # <<>>
                                   /\ Strip(rows[q].area) # <<>>} }

\* A faulty variant of the first pass: no area counts as processed.
AreaIsProcessedNever(area, processed) == FALSE

\* find_active_campaign, "if area_lower in processed_areas".
AreaIsProcessed(area, processed) == LowerStr(area) \in processed

\* find_active_campaign, second pass from record p on.  rows: the sheet with
\* the marks written so far; fail: the record whose update_cell raises (0:
\* none).  The result: the sheet, the row of the campaign found (0: none),
\* and whether the function was left by its except branch.
RECURSIVE FindFrom(_, _, _, _)
FindFrom(rows, p, processed, fail) ==
    IF p > Len(rows)
    THEN [sheet |-> rows, row |-> 0, raised |-> FALSE]
    ELSE LET status == Strip(rows[p].status)
             area == Strip(rows[p].area)
         IN  IF area = <<>> \/ status # <<>>
             THEN FindFrom(rows, p + 1, processed, fail)
             ELSE IF AreaIsProcessed(area, processed)
             THEN IF fail = p
                  THEN [sheet |-> rows, row |-> 0, raised |-> TRUE]
                  ELSE FindFrom([rows EXCEPT ![p].status = DuplicateSkipped],
                                p + 1, processed, fail)
             ELSE [sheet |-> rows, row |-> RowNum(p), raised |-> FALSE]

\* find_active_campaign
FindActiveCampaign(rows, fail) ==
    IF rows = <<>> THEN [sheet |-> rows, row |-> 0, raised |-> FALSE]
    ELSE FindFrom(rows, 1, ProcessedAreas(rows), fail)

\* The records whose update_cell find_active_campaign can call.
DuplicateRecords(rows) ==
    {p \in DOMAIN rows :
        /\ Strip(rows[p].area) # <<>> /\ Strip(rows[p].status) = <<>>
        /\ AreaIsProcessed(Strip(rows[p].area), ProcessedAreas(rows))}

\* What the attempts of one call of update_campaign_status can do, attempt
\* by attempt.
UpdateRuns ==
    { <<"ok">>, <<"429", "ok">>, <<"error">>, <<"429", "error">>,
      <<"429", "429", "429">> }

\* update_campaign_status: TRUE when an attempt has written the cell; after
\* a rate-limit error the next attempt follows, after any other error the
\* function returns False, and after MC_MAX_RETRIES attempts too.
StatusUpdated(run) ==
    \E k \in 1..MC_MAX_RETRIES :
        /\ k <= Len(run) /\ run[k] = "ok"
        /\ \A j \in 1..(k - 1) : run[j] = "429"

\* update_campaign_status: the seconds it sleeps.
RECURSIVE StatusSleep(_, _)
StatusSleep(run, attempt) ==
    IF attempt >= MC_MAX_RETRIES \/ attempt >= Len(run) \/ run[attempt + 1] # "429"
    THEN 0
    ELSE (2 ^ attempt) * STATUS_BACKOFF + StatusSleep(run, attempt + 1)

\* What a run of the hunter script can give: (success, message, seconds).
HunterRuns ==
    { [success |-> TRUE, message |-> "Success", secs |-> 1],
      [success |-> FALSE, message |-> "Exit code 1", secs |-> 1],
      [success |-> FALSE, message |-> "Timeout", secs |-> HUNTER_TIMEOUT] }

\* leads_after - leads_before: the processor may have taken pending leads
\* meanwhile.
NewLeadCounts == {-1, 0, 2}

\* process_campaign after the check found capacity, with the CAMPAIGNS sheet,
\* and the sleep of main_loop after it.  No connection, an exception in
\* find_active_campaign or no campaign: the pass ends.  Otherwise the hunter
\* script runs for the area found, the status of the campaign is written
\* (the result of update_campaign_status is not looked at), and after a
\* success the count of the day is raised.
ProcessCampaign ==
    /\ mc.pc = "work"
    /\ \E connected \in BOOLEAN :
       \E fail \in {0} \cup (IF mc.ufaults > 0 THEN DuplicateRecords(mc.sheet)
                                               ELSE {}) :
       \E hunter \in HunterRuns, new_leads \in NewLeadCounts, run \in UpdateRuns :
        LET found == FindActiveCampaign(mc.sheet, fail)
            hunted == connected /\ found.row # 0
            status == IF hunter.success THEN CompleteStatus(new_leads)
                      ELSE ErrorStatus(hunter.message)
            updated == StatusUpdated(run)
            ended == mc.now + hunter.secs + SHEET_SETTLE_DELAY
                         + StatusSleep(run, 0)
        IN
        /\ ~connected => (fail = 0 /\ mc.slack > 0)
        /\ (connected /\ found.row = 0 /\ ~found.raised) => (fail = 0 /\ mc.slack > 0)
        /\ fail # 0 => found.raised
        /\ ~hunted => /\ hunter.success /\ new_leads = 0 /\ run = <<"ok">>
        /\ (hunted /\ ~updated) => (mc.ufaults > 0 /\ fail = 0)
        /\ (hunted /\ ~hunter.success) => new_leads = 0
        /\ mc' = [mc EXCEPT
              !.pc = "cycle",
              !.slack = IF hunted \/ found.raised THEN @ ELSE @ - 1,
              !.ufaults = IF found.raised \/ (hunted /\ ~updated) THEN @ - 1 ELSE @,
              !.sheet = IF ~connected THEN @
                        ELSE IF hunted /\ updated
                        THEN [found.sheet EXCEPT ![found.row - 1].status = status]
                        ELSE found.sheet,
              !.hunts = IF hunted
                        THEN Append(@, [area |-> LowerStr(Strip(mc.sheet[found.row - 1].area)),
                                        row |-> found.row,
                                        success |-> hunter.success,
                                        updated |-> updated])
                        ELSE @,
              !.file = IF hunted /\ hunter.success
                       THEN IncrementCampaignCount(@, ended) ELSE @,
              !.now = CASE ~hunted -> @ + LOOP_DELAY
                        [] hunter.success ->
                             ended + CAMPAIGN_SUCCESS_DELAY + LOOP_DELAY
                        [] OTHER ->
                             ended + CAMPAIGN_FAILURE_DELAY + LOOP_DELAY]
    /\ UNCHANGED calc
    /\ QuietUnchanged

(***************************************************************************)
(* Initial states.                                                         *)
(***************************************************************************)
\* No exception.
NoMessage == [text |-> <<>>, attempts |-> 0]

\* No call of the safe layer has returned yet.
NoCall ==
    [kind |-> "none", key |-> NoCacheKey, outcome |-> "none", value |-> 0,
     calls |-> 0, first |-> FALSE, t0 |-> 0, tset |-> 0, tret |-> 0,
     pre |-> EmptyCache, post |-> EmptyCache, trail |-> <<>>, msg |-> NoMessage]

\* No call of the safe layer is in progress.  n counts the calls made, ticks
\* the seconds passed between calls; wrote says that a write has succeeded
\* and no read with a cache key has returned a value since, written is the
\* version of the data after the last write that succeeded and wpre the
\* cache before it; trail lists the attempts of the call in progress, each
\* with its result and the sleep that followed; last describes the call that
\* returned last.
IdleIO ==
    [pc |-> "idle", key |-> NoCacheKey, attempt |-> 0, t0 |-> 0,
     pre |-> EmptyCache, n |-> 0, ticks |-> 0, wrote |-> FALSE, written |-> 0,
     wpre |-> EmptyCache, trail |-> <<>>, last |-> NoCall]

\* The keys of the rows of a sheet.
KeysOf(rows) == {RowKey(rows[p]) : p \in DOMAIN rows} \ {NoKey}

\* A cache file left by an earlier run.
OldCache == [k \in {"leads"} |-> [data |-> 0, timestamp |-> 0]]

\* The engine is started on a LEADS sheet of pending leads and a RESULTS sheet
\* without duplicates; the registry file is empty or mirrors the RESULTS
\* sheet; the cache file is empty or left by an earlier run.
InitEngine(instances, nfaults, nedits, leadSeqs, rowSeqs, caches) ==
    /\ leads \in leadSeqs \ {<<>>}
    /\ results \in {r \in rowSeqs : UniqueKeys(r)}
    /\ insts = instances
    /\ faults = nfaults
    /\ edits = nedits
    /\ pc = [i \in instances |-> "start"]
    /\ loc = [i \in instances |-> NoLoc]
    /\ \E reg \in {{}, KeysOf(results)} : registry = [i \in instances |-> reg]
    /\ phone_map = [i \in instances |-> <<>>]
    /\ leads_since_rest = [i \in instances |-> 0]
    /\ \E c \in caches : cache = [i \in instances |-> c]
    /\ clock = 0
    /\ io = IdleIO
    /\ remote = 0
    /\ nap = [i \in instances |-> NoNap]
    /\ calc = NoCalc
    /\ mc = NoMC
    /\ ev = [i \in instances |-> {}]
    /\ hist = [p \in DOMAIN leads |-> NoHist]

Init ==
    InitEngine({1}, 0, 0, SeqsUpTo(LeadPool, MaxLeads),
               SeqsUpTo(RowPool, MaxInitRows), {OldCache})

\* The instances there can be; insts holds those that run.
Instances == {1, 2}

Next ==
    \/ \E i \in Instances : i \in insts /\ Start(i)
    \/ \E i \in Instances : i \in insts /\ FetchLeads(i)
    \/ \E i \in Instances : i \in insts /\ Phase1CheckBefore(i)
    \/ \E i \in Instances : i \in insts /\ MarkDuplicate(i)
    \/ \E i \in Instances : i \in insts /\ MarkProcessing(i)
    \/ \E i \in Instances : i \in insts /\ Phase2CheckDuring(i)
    \/ \E i \in Instances : i \in insts /\ Save(i)
    \/ \E i \in Instances : i \in insts /\ Phase3VerifyAfter(i)
    \/ \E i \in Instances : i \in insts /\ Phase3VerifySync(i)
    \/ \E i \in Instances : i \in insts /\ Phase3FixPhone(i)
    \/ \E i \in Instances : i \in insts /\ Phase3VerifySaved(i)
    \/ \E i \in Instances : i \in insts /\ Phase3FixUrl(i)
    \/ \E i \in Instances : i \in insts /\ VerifyColumns(i)
    \/ \E i \in Instances : i \in insts /\ MarkComplete(i)

\* One engine, a store whose calls succeed, nobody else at the sheets.
Spec == Init /\ [][Next]_vars


\* The clean-up loop of Phase 3 runs only when a duplicate got past Phase 2:
\* after a failed scan, an out-of-band edit, or with a second engine.
NextCleanup == \E i \in Instances : i \in insts /\ Phase3Cleanup(i)

\* The leads of the runs with failures.
FaultyLeadPool ==
    { MkLead(NameA, Phone1, SiteUrl),
      MkLead(NameA2, Phone1cc, NoSiteUrl),
      MkLead(NameB, <<>>, SiteUrl) }

\* One engine on a store whose calls may fail.
InitFaulty ==
    InitEngine({1}, MaxFaults, 0, SeqsUpTo(FaultyLeadPool, MaxBusyLeads),
               {<<>>}, {OldCache})
SpecFaulty == InitFaulty /\ [][Next \/ NextCleanup]_vars

\* One engine, and out-of-band edits of the RESULTS sheet.
ExtLeadPool ==
    { MkLead(NameA, Phone1, SiteUrl),
      MkLead(NameB, <<>>, SiteUrl) }

InitExt ==
    InitEngine({1}, 0, MaxEdits, SeqsUpTo(ExtLeadPool, MaxBusyLeads),
               SeqsUpTo({MkRow(NameA2, Phone2)}, MaxInitRows), {OldCache})
SpecExt == InitExt /\ [][Next \/ NextCleanup \/ ExternalDelete \/ ExternalCopy]_vars

\* One engine, and another writer who appends up to MaxHealEdits copies of rows
\* to the RESULTS sheet.
InitHeal ==
    InitEngine({1}, 0, MaxHealEdits, SeqsUpTo(ExtLeadPool, MaxBusyLeads),
               SeqsUpTo({MkRow(NameA2, Phone2)}, MaxInitRows), {OldCache})
SpecHeal == InitHeal /\ [][Next \/ NextCleanup \/ ExternalCopy]_vars

\* One engine on a store whose calls may fail, and out-of-band edits of the
\* RESULTS sheet.
InitExtFaulty ==
    InitEngine({1}, MaxExtFaults, MaxEdits, SeqsUpTo(ExtLeadPool, MaxBusyLeads),
               SeqsUpTo({MkRow(NameA2, Phone2)}, MaxInitRows), {OldCache})
SpecExtFaulty ==
    InitExtFaulty /\ [][Next \/ NextCleanup \/ ExternalDelete \/ ExternalCopy]_vars

\* Two engines on the same sheets.
ConcLeadPool ==
    { MkLead(NameA, Phone1, SiteUrl),
      MkLead(NameB, Phone2, SiteUrl) }

InitConc ==
    InitEngine({1, 2}, 0, 0, SeqsUpTo(ConcLeadPool, MaxBusyLeads),
               SeqsUpTo({MkRow(NameA2, Phone2)}, MaxInitRows), {OldCache})
SpecConc == InitConc /\ [][Next \/ NextCleanup]_vars

\* A long LEADS sheet: more pending leads than MAX_LEADS_PER_DAY, each with a
\* name of its own and no phone.
DigitSeq == <<"0", "1", "2", "3", "4", "5", "6", "7", "8", "9">>

LongName(k) == <<"R", DigitSeq[(k \div 10) + 1], DigitSeq[(k % 10) + 1]>>

LongLeads(n) == [k \in 1..n |-> MkLead(LongName(k), <<>>, SiteUrl)]

\* One engine on the long sheet or on a short one; every store call
\* succeeds.
InitLong ==
    InitEngine({1}, 0, 0,
               {LongLeads(MaxLongLeads)} \cup SeqsUpTo(LeadPool, MaxBusyLeads),
               SeqsUpTo(RowPool, MaxInitRows), {EmptyCache})
SpecLong == InitLong /\ [][Next]_vars

\* One engine on a store whose calls may fail, and a user who may interrupt
\* it.
NextInterrupt ==
    \E i \in Instances : i \in insts /\ (Interrupt(i) \/ InterruptSwallowed(i))

LoopLeadPool ==
    { MkLead(NameA2, Phone1cc, NoSiteUrl),
      MkLead(NameA, Phone2, SiteUrl) }

InitLoop ==
    InitEngine({1}, MaxLoopFaults, 0, SeqsUpTo(LoopLeadPool, MaxBusyLeads),
               SeqsUpTo(RowPool, MaxInitRows), {OldCache})
SpecLoop == InitLoop /\ [][Next \/ NextCleanup \/ NextInterrupt]_vars

\* The loop of main under weak fairness: the process is not stopped and every
\* pass it has begun goes on; the store fails MaxLoopFaults calls at most, so
\* every call succeeds in the end.
LiveSheets ==
    { <<MkLead(<<>>, Phone2, SiteUrl), MkLead(NameA, Phone2, SiteUrl)>>,
      <<MkLead(NameA2, Phone1cc, NoSiteUrl), MkLead(NameA, Phone2, SiteUrl)>>,
      <<MkLead(NameA, Phone2, SiteUrl), MkLead(NameA, Phone2, SiteUrl)>> }

LiveRows == { <<>>, <<MkRow(NameA, Phone2)>>, <<MkRow(NameA2, Phone1)>> }

InitLive ==
    InitEngine({1}, MaxLoopFaults, 0, LiveSheets, LiveRows, {OldCache})
SpecLive ==
    InitLive /\ [][Next \/ NextCleanup]_vars /\ WF_vars(Next \/ NextCleanup)


(***************************************************************************)
(* The safe layer alone: one process that calls safe_sheet_read and        *)
(* safe_sheet_write in any order, on a store whose operations may fail,    *)
(* one action per attempt.  The data behind the reads is a version number  *)
(* that every write raises by one.                                         *)
(***************************************************************************)
EngineUnchanged ==
    UNCHANGED <<leads, results, insts, edits, pc, loc, registry, phone_map,
                leads_since_rest, nap, calc, mc, ev, hist>>

\* What one attempt of the remote operation can do: succeed, raise an
\* APIError with 429 in its text, or raise anything else.
AttemptResults == IF faults > 0 THEN {"ok", "429", "error"} ELSE {"ok"}

\* A faulty variant of the sleep: the wait doubles after every failed attempt,
\* whatever was raised.
BackoffDoubling(result, attempt) == (2 ^ attempt) * BASE_BACKOFF

\* A faulty variant of the sleep: the same wait after every failed attempt.
BackoffFlat(result, attempt) == BASE_BACKOFF

\* The sleep after a failed attempt.
Backoff(result, attempt) ==
    IF result = "429" THEN (2 ^ attempt) * BASE_BACKOFF ELSE BASE_BACKOFF

\* The operation_name the caller gives: the callers of this process name a
\* call after what it does and the sheet it reads.
OperationName(kind, key) ==
    IF kind = "write" THEN <<"Update">> ELSE <<"Fetch ", key>>

\* A faulty variant of the message: the operation is not named.
FailedMessageBare(name) ==
    [text |-> <<"Failed ", " after ", " attempts">>, attempts |-> MAX_RETRIES]

\* Exception(f"Failed {operation_name} after {max_retries} attempts"): the
\* text around the number, and the number.
FailedMessage(name) ==
    [text |-> <<"Failed ">> \o name \o <<" after ", " attempts">>,
     attempts |-> MAX_RETRIES]

\* One pass of the retry loop: what the operation did and the sleep after it.
Attempt(result, slept) == [result |-> result, slept |-> slept]

\* The call in progress returns (or raises): last describes it.
Return(kind, outcome, value, calls, tset, now, post, trail) ==
    [io EXCEPT !.pc = "idle",
               !.trail = <<>>,
               !.wrote = \/ outcome = "written"
                         \/ io.wrote /\ ~(outcome = "fetched" /\ io.key # NoCacheKey),
               !.written = IF outcome = "written" THEN value ELSE @,
               !.wpre = IF outcome = "written" THEN io.pre ELSE @,
               !.last = [kind |-> kind, key |-> io.key, outcome |-> outcome,
                         value |-> value, calls |-> calls, first |-> io.wrote,
                         t0 |-> io.t0, tset |-> tset, tret |-> now,
                         pre |-> io.pre, post |-> post, trail |-> trail,
                         msg |-> IF outcome = "raised"
                                 THEN FailedMessage(OperationName(kind, io.key))
                                 ELSE NoMessage]]

\* safe_sheet_read up to the loop: with a cache key (any string but the empty
\* one) the cache is asked, and a value it gives is returned at once.
ReadStart ==
    /\ pc[1] = "io"
    /\ io.pc = "idle"
    /\ io.n < MaxCalls
    /\ \E key \in CacheKeys \cup {NoCacheKey} :
        LET cached == IF key # NoCacheKey THEN CacheGet(cache[1], key, clock)
                      ELSE None
            called == [io EXCEPT !.key = key, !.attempt = 0, !.t0 = clock,
                                 !.pre = cache[1], !.n = @ + 1,
                                 !.trail = <<>>]
        IN  IF cached # None
            THEN io' = [called EXCEPT
                          !.wrote = FALSE,
                          !.last = [kind |-> "read", key |-> key,
                                    outcome |-> "hit", value |-> cached[1],
                                    calls |-> 0, first |-> io.wrote,
                                    t0 |-> clock, tset |-> 0, tret |-> clock,
                                    pre |-> cache[1], post |-> cache[1],
                                    trail |-> <<>>, msg |-> NoMessage]]
            ELSE io' = [called EXCEPT !.pc = "read"]
    /\ UNCHANGED <<cache, clock, remote, faults>>
    /\ EngineUnchanged

\* safe_sheet_read, one pass of the loop.
ReadAttempt ==
    /\ io.pc = "read"
    /\ \E result \in AttemptResults :
        LET trail == Append(io.trail, Attempt(result, clock' - clock)) IN
        IF result = "ok"
        THEN /\ cache' = [cache EXCEPT ![1] =
                             IF io.key # NoCacheKey
                             THEN CacheSet(@, io.key, remote, clock) ELSE @]
             /\ clock' = clock + READ_DELAY
             /\ io' = Return("read", "fetched", remote, io.attempt + 1, clock,
                             clock', cache'[1], trail)
             /\ UNCHANGED faults
        ELSE /\ faults' = faults - 1
             /\ clock' = clock + Backoff(result, io.attempt)
             /\ io' = IF io.attempt + 1 < MAX_RETRIES
                       THEN [io EXCEPT !.attempt = @ + 1, !.trail = trail]
                       ELSE Return("read", "raised", 0, io.attempt + 1, 0,
                                   clock', cache[1], trail)
             /\ UNCHANGED cache
    /\ UNCHANGED remote
    /\ EngineUnchanged

\* safe_sheet_write is called.
WriteStart ==
    /\ pc[1] = "io"
    /\ io.pc = "idle"
    /\ io.n < MaxCalls
    /\ io' = [io EXCEPT !.pc = "write", !.key = NoCacheKey, !.attempt = 0,
                         !.t0 = clock, !.pre = cache[1], !.n = @ + 1,
                         !.trail = <<>>]
    /\ UNCHANGED <<cache, clock, remote, faults>>
    /\ EngineUnchanged

\* safe_sheet_write, one pass of the loop.
WriteAttempt ==
    /\ io.pc = "write"
    /\ \E result \in AttemptResults :
        LET ok == result = "ok"
            raised == ~ok /\ io.attempt + 1 >= MAX_RETRIES
            trail == Append(io.trail, Attempt(result, clock' - clock))
        IN
        /\ faults' = IF ok THEN faults ELSE faults - 1
        /\ remote' = IF ok THEN remote + 1 ELSE remote
        /\ clock' = clock + (IF ok THEN SHEET_UPDATE_DELAY
                              ELSE Backoff(result, io.attempt))
        /\ cache' = [cache EXCEPT ![1] = CacheAfterWrite(@, ok)]
        /\ io' = CASE ok -> Return("write", "written", remote', io.attempt + 1,
                                   0, clock', cache'[1], trail)
                   [] raised -> Return("write", "raised", 0, io.attempt + 1, 0,
                                       clock', cache'[1], trail)
                   [] OTHER -> [io EXCEPT !.attempt = @ + 1, !.trail = trail]
    /\ EngineUnchanged

\* A second passes between two calls.
Tick ==
    /\ pc[1] = "io"
    /\ io.pc = "idle"
    /\ io.ticks < MaxTicks
    /\ clock' = clock + 1
    /\ io' = [io EXCEPT !.ticks = @ + 1]
    /\ UNCHANGED <<cache, remote, faults>>
    /\ EngineUnchanged

\* A cache file as an earlier run can have left it: data of version 0, read
\* at second 0 or 1, or one second before the process starts.
IOCaches ==
    { EmptyCache,
      [k \in {"leads"} |-> [data |-> 0, timestamp |-> 0]],
      [k \in {"leads"} |-> [data |-> 0, timestamp |-> 1]],
      [k \in CacheKeys |->
          [data |-> 0,
           timestamp |-> IF k = "leads" THEN 1 ELSE CACHE_DURATION - 1]] }

\* The process starts CACHE_DURATION seconds after second 0.
InitIO ==
    /\ leads = <<>>
    /\ results = <<>>
    /\ insts = {1}
    /\ faults = MaxIOFaults
    /\ edits = 0
    /\ pc = [i \in {1} |-> "io"]
    /\ loc = [i \in {1} |-> NoLoc]
    /\ registry = [i \in {1} |-> {}]
    /\ phone_map = [i \in {1} |-> <<>>]
    /\ leads_since_rest = [i \in {1} |-> 0]
    /\ \E c \in IOCaches : cache = [i \in {1} |-> c]
    /\ clock = CACHE_DURATION
    /\ io = IdleIO
    /\ remote = 0
    /\ nap = [i \in {1} |-> NoNap]
    /\ calc = NoCalc
    /\ mc = NoMC
    /\ ev = [i \in {1} |-> {}]
    /\ hist = <<>>

NextIO == ReadStart \/ ReadAttempt \/ WriteStart \/ WriteAttempt \/ Tick

SpecIO == InitIO /\ [][NextIO]_vars


(***************************************************************************)
(* The key on its own, and the campaign scheduler on its own.              *)
(***************************************************************************)
\* Neither the engine nor the safe layer runs.
InitQuiet ==
    /\ leads = <<>>
    /\ results = <<>>
    /\ insts = {}
    /\ faults = 0
    /\ edits = 0
    /\ pc = <<>>
    /\ loc = <<>>
    /\ registry = <<>>
    /\ phone_map = <<>>
    /\ leads_since_rest = <<>>
    /\ cache = <<>>
    /\ clock = 0
    /\ io = IdleIO
    /\ remote = 0
    /\ nap = <<>>
    /\ ev = <<>>
    /\ hist = <<>>

\* The characters of the names: letters of both cases, a digit, a blank, a
\* tab and a sign.
KeyNameChars == {"A", "b", "7", " ", "\t", "-"}

\* '+91 98765-43210'
PhoneFormatted ==
    <<"+","9","1"," ","9","8","7","6","5","-","4","3","2","1","0">>
\* Nine digits, eleven digits, and ten and eleven digits with a zero in
\* front.
PhoneNine == <<"9","8","7","6","5","4","3","2","1">>
PhoneEleven == <<"5","9","8","7","6","5","4","3","2","1","0">>
PhoneZeroTen == <<"0","9","8","7","6","5","4","3","2","1">>
PhoneZeroEleven == <<"0","9","8","7","6","5","4","3","2","1","0">>

KeyPhones ==
    {<<>>, Phone1, Phone1cc, PhoneShort, <<"-">>, PhoneFormatted, PhoneNine,
     PhoneEleven, PhoneZeroTen, PhoneZeroEleven}

InitKey ==
    /\ InitQuiet
    /\ mc = NoMC
    /\ \E name \in SeqsUpTo(KeyNameChars, MaxNameLen) : \E phone \in KeyPhones :
           calc = [NoCalc EXCEPT !.name = name, !.phone = phone]

NextKey == ComputeKey \/ NormalizeContact

SpecKey == InitKey /\ [][NextKey]_vars

\* The characters of ice breakers and URLs: a letter, a blank and two of the
\* signs that end a sentence.
EmbedChars == {"a", " ", ".", "?"}

\* The ice breakers process_lead_fully_supervised writes before the
\* embedding, with the URL of the name.
BuiltPairs ==
    { [ice |-> IF NoWebsite(target_url)
               THEN <<T_HI>> \o name \o <<T_NOSITE>> \o Phase1Generate(name)
                        \o <<T_LAUNCH>>
               ELSE <<T_QUICK>> \o name \o <<T_PREVIEW>> \o Phase1Generate(name),
       url |-> Phase1Generate(name)] :
      name \in {NameA, NameA2, NameSym}, target_url \in {SiteUrl, NoSiteUrl} }

\* Any ice breaker with any URL.
TextPairs ==
    { [ice |-> t, url |-> u] :
      t \in SeqsUpTo(EmbedChars, MaxIceLen), u \in SeqsUpTo(EmbedChars, MaxUrlLen) }

InitEmbed ==
    /\ InitQuiet
    /\ mc = NoMC
    /\ \E pair \in BuiltPairs \cup TextPairs :
           calc = [NoCalc EXCEPT !.ice = pair.ice, !.url = pair.url]

NextEmbed == EmbedPreview \/ ValidatePreview

SpecEmbed == InitEmbed /\ [][NextEmbed]_vars

\* The dates a log file can hold at the start, on day 1: none, the day
\* before, the day itself.
StoredDates == {NoDate, <<0>>, <<1>>}

CampaignFiles ==
    {NoFile} \cup {<<[date |-> d, processed_count |-> c]>> :
                      d \in StoredDates, c \in 0..MAX_CAMPAIGNS_PER_DAY}

DailyFiles ==
    {NoFile} \cup {<<[date |-> d, processed_count |-> c, last_processed |-> <<"t">>]>> :
                      d \in StoredDates, c \in {0, MAX_LEADS_PER_DAY}}

\* The times of day 1 at which the scheduler is started: at midnight, half a
\* minute later, at noon, one second before midnight.
StartTimes == {SecondsPerDay + s : s \in {0, 30, 43200, 86399}}

InitMC ==
    /\ InitQuiet
    /\ calc = NoCalc
    /\ \E now \in StartTimes : \E file \in CampaignFiles : \E daily \in DailyFiles :
           mc = [NoMC EXCEPT !.pc = "cycle", !.now = now, !.file = file,
                             !.slack = MaxSlack, !.daily_file = daily]

NextMC == CheckDailyLimit \/ RunCampaign \/ ResetDailyCount

SpecMC == InitMC /\ [][NextMC]_vars

\* The CAMPAIGNS sheet at the start: up to three rows; an area is written in
\* two ways, one row has no area, and a row can have a status already.
AreaKo == <<"K","o">>
AreaKoLower == <<"k","o"," ">>
AreaM == <<"M">>

MkCampaign(area, status) == [area |-> area, status |-> status]

CampaignSheets ==
    { <<>>,
      <<MkCampaign(AreaKo, <<>>)>>,
      <<MkCampaign(AreaKo, <<>>), MkCampaign(AreaKoLower, <<>>)>>,
      <<MkCampaign(AreaKo, <<>>), MkCampaign(AreaM, <<" ">>)>>,
      <<MkCampaign(AreaKo, CompleteStatus(0)), MkCampaign(AreaKoLower, <<>>),
        MkCampaign(AreaM, <<>>)>>,
      <<MkCampaign(<<>>, <<>>), MkCampaign(AreaM, <<>>),
        MkCampaign(AreaKo, <<>>)>> }

\* The scheduler with its CAMPAIGNS sheet, started on day 1 with a count of
\* the day that leaves room for two campaigns.
InitCamp ==
    /\ InitQuiet
    /\ calc = NoCalc
    /\ \E now \in {SecondsPerDay + 43200, 2 * SecondsPerDay - 1} :
       \E c \in {MAX_CAMPAIGNS_PER_DAY - 2} :
       \E sheet \in CampaignSheets :
           mc = [NoMC EXCEPT !.pc = "cycle", !.now = now,
                             !.file = <<[date |-> <<1>>, processed_count |-> c]>>,
                             !.slack = MaxSlack, !.sheet = sheet,
                             !.ufaults = MaxCampFaults]

NextCamp == CheckDailyLimit \/ ProcessCampaign

SpecCamp == InitCamp /\ [][NextCamp]_vars



(***************************************************************************)
(* Properties.                                                             *)
(***************************************************************************)
\* Instance i is between two work items, and has worked on one.
ItemEnded(i) == pc[i] = "loop" /\ ev[i] # {}

\* C1: whenever the processing of a work item has ended, no two rows of the
\* RESULTS sheet have the same (non-null) duplicate key.
C1_ResultStoreUnique ==
    \A i \in insts : ItemEnded(i) => UniqueKeys(results)


\* The events of an item that Phase 1 has found to be a duplicate.
Phase1DupEvents == {"p1_dup", "p1_registry", "p1_sheet", "marked_dup"}

\* The fingerprint of the lead at position r of the LEADS sheet, as Phase 1
\* computes it, and the one Phase 2 and Phase 3 compute from the phone map.
LeadKey(r) == CreateDuplicateKey(Strip(leads[r].name), Strip(leads[r].phone))

LeadStoredKey(r) ==
    CreateDuplicateKey(
        Strip(leads[r].name),
        Phase2GetCorrectPhone(BuildPhoneMap(leads), Strip(leads[r].name),
                              Strip(leads[r].phone)))

\* The leads at r1 and r2 have the same name and phone, r1 first, and the
\* engine has ended the processing of both.
SamePairEnded(r1, r2) ==
    /\ r1 < r2
    /\ leads[r1].name = leads[r2].name
    /\ leads[r1].phone = leads[r2].phone
    /\ hist[r1].selects > 0
    /\ hist[r2].selects > 0
    /\ \A i \in insts : pc[i] = "loop"

\* What C2 promises of such a pair: one row appended for the two, the second
\* marked as a duplicate by Phase 1 and nothing done for it after Phase 1.
OneRowSecondGated(r1, r2) ==
    /\ hist[r1].appends + hist[r2].appends = 1
    /\ "p1_dup" \in hist[r2].ev
    /\ hist[r2].ev \subseteq Phase1DupEvents
    /\ leads[r2].status = StCompleteDuplicate

\* C2: two pending items with the same (name, phone), processed one after the
\* other by one engine, give exactly one appended row; the second is marked
\* complete-duplicate by Phase 1 and gets no work after Phase 1.  Stated for
\* the pairs the claim is about: the name is not empty (the item is valid) and
\* the first item passed the check of Phase 1 (it has a fingerprint, and no
\* row with it was in the RESULTS sheet).
C2_DedupIdempotence ==
    \A r1, r2 \in DOMAIN leads :
        ( /\ SamePairEnded(r1, r2)
          /\ Strip(leads[r1].name) # <<>>
          /\ "p1_passed" \in hist[r1].ev )
        => OneRowSecondGated(r1, r2)

\* C3: an item that Phase 1 reports as a duplicate gets no status
\* "Processing...", no generated texts, no Phase 2, no append and no Phase 3;
\* when its processing has ended its status is "Complete - Duplicate".
C3_Phase1Gate ==
    \A r \in DOMAIN leads :
        "p1_dup" \in hist[r].ev =>
            /\ hist[r].ev \subseteq Phase1DupEvents
            /\ hist[r].appends = 0
            /\ \A i \in insts :
                  loc[i].row = RowNum(r) => pc[i] \in {"markdup", "loop"}
            /\ leads[r].status =
                   IF \E i \in insts : loc[i].row = RowNum(r) /\ pc[i] = "markdup"
                   THEN StPending ELSE StCompleteDuplicate

\* Witness of C3: an item has ended as a duplicate that Phase 1 found by its
\* scan of the RESULTS sheet.
C3_Witness ==
    \E i \in insts :
        /\ ItemEnded(i)
        /\ {"p1_dup", "p1_sheet", "marked_dup"} \subseteq ev[i]
        /\ leads[loc[i].row - 1].status = StCompleteDuplicate

\* C4: a row is appended for an item (with a fingerprint) only after the scan
\* of Phase 2 has completed and found no row with the fingerprint; an item
\* for which that scan found a match gets no row.
C4_Phase2Gate ==
    \A i \in insts :
        /\ ("appended" \in ev[i] /\ "p2_no_key" \notin ev[i])
               => "p2_passed" \in ev[i]
        /\ "p2_dup" \in ev[i] => "appended" \notin ev[i]

\* The rows of the RESULTS sheet with the fingerprint of the item instance i
\* works on, as Phase 3 computes it.
ItemRows(i) ==
    MatchingPositions(results,
                      CreateDuplicateKey(loc[i].name, loc[i].correct_phone))

\* Instance i has just left Phase 3 by its clean-up, and since the scan of
\* that Phase 3 nobody else has edited the RESULTS sheet.
JustCleaned(i) ==
    /\ pc[i] = "sync"
    /\ "p3_cleaned" \in ev[i]
    /\ hist[loc[i].row - 1].scan.quiet

\* C5: when the scan of Phase 3 has found k > 1 rows with the fingerprint of
\* the item, then after the clean-up exactly one row with that fingerprint is
\* left, and it is the first of the k.
C5_SelfHeal ==
    \A i \in insts :
        JustCleaned(i) => ItemRows(i) = {hist[loc[i].row - 1].scan.first}

\* The places of process_lead_fully_supervised after Phase 3.
AfterPhase3 == {"sync", "syncfix", "urlv", "urlfix", "cols"}

\* C6: when the scan of Phase 3 finds no row with the fingerprint of the item
\* (the appended row has disappeared), the phase answers "not single", the
\* row is not appended again, the item is never marked complete or duplicate,
\* its status stays "Processing...", and the loop never selects it again.
C6_ZeroMatches ==
    \A r \in DOMAIN leads :
        "p3_missing" \in hist[r].ev =>
            /\ hist[r].appends = 1
            /\ hist[r].selects = 1
            /\ leads[r].status = StProcessing
            /\ hist[r].ev \cap {"all_verified", "marked_complete", "marked_dup"} = {}
            /\ \A i \in insts :
                  loc[i].row = RowNum(r) =>
                      /\ ~loc[i].is_single
                      /\ pc[i] \in AfterPhase3 \cup {"loop"}

\* The rows of the RESULTS sheet with the fingerprint under which the lead at
\* position r of the LEADS sheet is stored.
LeadRows(r) == MatchingPositions(results, LeadStoredKey(r))

\* C7: when two engines have both processed the same lead and both have
\* finished Phase 3 for it, the RESULTS sheet holds exactly one row with the
\* fingerprint of that lead.
C7_ConcurrentRuns ==
    \A r \in DOMAIN leads :
        hist[r].p3by = {1, 2} => Cardinality(LeadRows(r)) = 1

\* C9: every step in which the engine writes to a sheet (status update,
\* append, deletion of a duplicate row, fix of a cell) leaves its cache empty.
C9_WritesLeaveCacheEmpty ==
    [][ (edits' = edits /\ (leads' # leads \/ results' # results))
           => \A i \in insts : cache'[i] = EmptyCache ]_vars

\* Witness of C9: the engine has deleted a duplicate row and fixed a cell by
\* direct calls, and its cache is empty.
C9_Witness ==
    \E i \in insts :
        /\ {"p3_cleaned", "fixed_url"} \subseteq ev[i]
        /\ cache[i] = EmptyCache

\* The entry of key in the cache c is there and younger than CACHE_DURATION
\* at the time now.
FreshEntry(c, key, now) ==
    key \in DOMAIN c /\ now - c[key].timestamp < CACHE_DURATION

\* C8: the first safe_sheet_read with a cache key after a safe_sheet_write
\* that returned finds no entry in the cache and invokes the remote
\* operation; the value it returns is not older than the write.
C8_CacheInvalidation ==
    LET l == io.last IN
    /\ (io.pc = "idle" /\ l.kind = "write" /\ l.outcome = "written")
           => cache[1] = EmptyCache
    /\ (l.kind = "read" /\ l.key # NoCacheKey /\ l.first) =>
           /\ l.pre = EmptyCache
           /\ l.outcome # "hit"
           /\ l.calls >= 1
           /\ l.outcome = "fetched" => l.value >= io.written

\* Witness of C8: a read with a cache key has returned as the first after a
\* write, and before that write the cache held an entry for the key that
\* would still have been young enough at the time of the read.
C8_Witness ==
    LET l == io.last IN
    /\ l.kind = "read" /\ l.first /\ l.outcome = "fetched"
    /\ l.key # NoCacheKey
    /\ FreshEntry(io.wpre, l.key, l.t0)
    /\ l.value > io.wpre[l.key].data

\* C10: a safe_sheet_read with a cache key returns the cached value without
\* invoking the remote operation exactly when the cache holds an entry for
\* the key with now - timestamp < CACHE_DURATION; otherwise it invokes the
\* operation and stores the result under the key with the current time; a
\* call without a cache key invokes the operation and leaves the cache as
\* it is.
C10_ReadThrough ==
    LET l == io.last IN
    l.kind = "read" =>
        IF l.key = NoCacheKey
        THEN /\ l.outcome # "hit"
             /\ l.calls >= 1
             /\ l.post = l.pre
             /\ l.outcome = "fetched" => l.value = remote
        ELSE /\ l.outcome = "hit" <=> FreshEntry(l.pre, l.key, l.t0)
             /\ l.outcome = "hit" =>
                    /\ l.calls = 0
                    /\ l.value = l.pre[l.key].data
                    /\ l.post = l.pre
             /\ l.outcome = "fetched" =>
                    /\ l.calls >= 1
                    /\ l.value = remote
                    /\ l.tset >= l.t0 /\ l.tset = l.tret - READ_DELAY
                    /\ l.post = [k \in DOMAIN l.pre \cup {l.key} |->
                                   IF k = l.key
                                   THEN [data |-> l.value, timestamp |-> l.tset]
                                   ELSE l.pre[k]]
             /\ l.outcome = "raised" => l.calls = MAX_RETRIES /\ l.post = l.pre

\* Witness of C10: a read has invoked the operation for a key whose entry was
\* exactly CACHE_DURATION seconds old, and has replaced the entry.
C10_Witness ==
    LET l == io.last IN
    /\ l.kind = "read" /\ l.outcome = "fetched" /\ l.key \in DOMAIN l.pre
    /\ l.t0 - l.pre[l.key].timestamp = CACHE_DURATION
    /\ cache[1][l.key].timestamp = l.tset

\* Every attempt listed in trail raised a rate-limit error.
All429(trail) == \A k \in DOMAIN trail : trail[k].result = "429"

\* The sleeps listed in trail double from BASE_BACKOFF on: the sleep after
\* attempt k (counted from 0) is BASE_BACKOFF * 2^k.
Doubling(trail) ==
    \A k \in DOMAIN trail : trail[k].slept = BASE_BACKOFF * 2 ^ (k - 1)

\* C11: when the remote operation raises a rate-limit error on every attempt,
\* safe_sheet_read and safe_sheet_write invoke it exactly MAX_RETRIES times,
\* sleep BASE_BACKOFF * 2^k seconds after attempt k (k = 0 .. MAX_RETRIES - 1)
\* and then raise an exception whose message names the operation.
C11_BackoffBound ==
    LET l == io.last IN
    /\ (io.pc \in {"read", "write"} /\ All429(io.trail)) =>
           /\ Len(io.trail) = io.attempt
           /\ io.attempt < MAX_RETRIES
           /\ Doubling(io.trail)
    /\ (l.kind \in {"read", "write"} /\ l.trail # <<>> /\ All429(l.trail)) =>
           /\ Len(l.trail) = MAX_RETRIES
           /\ l.calls = MAX_RETRIES
           /\ Doubling(l.trail)
           /\ l.tret - l.t0 = BASE_BACKOFF * (2 ^ MAX_RETRIES - 1)
           /\ l.outcome = "raised"
           /\ l.msg.attempts = MAX_RETRIES
           /\ IsSubstring(OperationName(l.kind, l.key), l.msg.text)

\* Witness of C11: a safe_sheet_write has raised after rate-limit errors on
\* every attempt, and the last sleep was BASE_BACKOFF * 2^(MAX_RETRIES - 1).
C11_Witness ==
    LET l == io.last IN
    /\ l.kind = "write" /\ l.outcome = "raised"
    /\ All429(l.trail)
    /\ Len(l.trail) = MAX_RETRIES
    /\ l.trail[MAX_RETRIES].slept = BASE_BACKOFF * 2 ^ (MAX_RETRIES - 1)

\* The steps of a pass of the loop of main whose store call is not inside a
\* try block of process_lead_fully_supervised or of a guardian: what the call
\* raises reaches main.
RaisesToMain == {"loop", "markdup", "complete"}

\* C12: an exception (other than the manual interrupt) that a pass of the loop
\* of main lets through is caught and logged by main, main sleeps
\* RETRY_DELAY_SECONDS and is back at the head of the loop; the loop is left
\* only on a manual interrupt, and is not entered again.
C12_LoopSurvival ==
    [][ \A i \in insts :
          /\ (faults' < faults /\ pc[i] \in RaisesToMain) =>
                 /\ pc'[i] = "loop"
                 /\ nap'[i].how = "caught"
                 /\ nap'[i].log = "MainLoop:error"
                 /\ nap'[i].secs = RETRY_DELAY_SECONDS
          /\ (pc'[i] = "stopped" /\ pc[i] # "stopped") =>
                 "interrupt" \in ev'[i] \ ev[i]
          /\ pc[i] = "stopped" => pc'[i] = "stopped" ]_vars

\* Witness of C12: "Mark duplicate" has raised for an item, main has caught
\* the exception, and a later pass of the loop has selected the item again.
C12_Witness ==
    \E i \in insts : \E r \in DOMAIN hist :
        /\ "raised" \in hist[r].ev
        /\ hist[r].selects >= 2
        /\ loc[i].row = RowNum(r)
        /\ pc[i] = "phase1"

\* The items that have been processed successfully: "Mark complete" has
\* been written for them.
Processed == {r \in DOMAIN hist : "marked_complete" \in hist[r].ev}

\* C13: in a run that stays within one calendar date, the number of items
\* the loop has processed successfully never exceeds MAX_LEADS_PER_DAY.
C13_DailyQuota == Cardinality(Processed) <= MAX_LEADS_PER_DAY


\* C16: the engine rests once each time the number of items completed since
\* the last rest reaches REST_AFTER_LEADS, and before it selects a further
\* item; a rest sets the counter back to 0, so the counter never exceeds
\* REST_AFTER_LEADS and no item is in progress while it stands there.
C16_RestPause ==
    \A i \in insts :
        /\ leads_since_rest[i] <= REST_AFTER_LEADS
        /\ nap[i].rests * REST_AFTER_LEADS + leads_since_rest[i]
               = Cardinality(Processed)
        /\ pc[i] # "loop" => leads_since_rest[i] < REST_AFTER_LEADS

C16_Witness ==
    \E i \in insts :
        /\ nap[i].rests = 2
        /\ leads_since_rest[i] = 0
        /\ Cardinality(Processed) = 2 * REST_AFTER_LEADS
        /\ pc[i] = "phase1"


\* C17: the step that completes an item successfully ends the pass of the
\* loop with a sleep of d seconds, MIN_DELAY_SECONDS <= d <= MAX_DELAY_SECONDS,
\* and leaves the engine at the head of the loop: the store is read for the
\* next item only after that sleep.
C17_Pacing ==
    [][ \A i \in insts :
          "marked_complete" \in ev'[i] \ ev[i] =>
              /\ pc'[i] = "loop"
              /\ nap'[i].how = "paced"
              /\ MIN_DELAY_SECONDS <= nap'[i].secs
              /\ nap'[i].secs <= MAX_DELAY_SECONDS ]_vars

C17_Witness ==
    \E i \in insts :
        /\ pc[i] = "loop"
        /\ "marked_complete" \in ev[i]
        /\ nap[i].how = "paced"
        /\ nap[i].secs = MAX_DELAY_SECONDS


\* The engine is inside process_lead_fully_supervised.
InProgress(pc_i) == pc_i \notin {"start", "loop", "stopped"}

\* C18: a pass of the loop takes up the first row, in the order of the
\* sheet, whose status is pending, and that row only until the pass ends; no
\* item is in progress while a row before it is pending.
C18_ProcessingOrder ==
    [][ \A i \in insts :
          /\ (~InProgress(pc[i]) /\ InProgress(pc'[i])) =>
                 LET p == loc'[i].row - 1 IN
                 /\ p \in DOMAIN leads
                 /\ IsPending(leads[p].status)
                 /\ \A q \in 1..(p - 1) : ~IsPending(leads[q].status)
                 /\ hist'[p].selects = hist[p].selects + 1
                 /\ \A q \in DOMAIN hist \ {p} : hist'[q].selects = hist[q].selects
          /\ (InProgress(pc[i]) /\ InProgress(pc'[i])) =>
                 /\ loc'[i].row = loc[i].row
                 /\ \A q \in DOMAIN hist : hist'[q].selects = hist[q].selects
          /\ InProgress(pc'[i]) =>
                 \A q \in 1..(loc'[i].row - 2) : ~IsPending(leads'[q].status) ]_vars

\* The second row is in progress after the first one, which is pending no
\* more.
C18_Witness ==
    \E i \in insts :
        /\ InProgress(pc[i])
        /\ loc[i].row = RowNum(2)
        /\ hist[1].selects >= 1
        /\ hist[2].selects = 1
        /\ ~IsPending(leads[1].status)


\* C19: a step that changes the LEADS sheet changes the status cell of the
\* row an engine has selected and nothing else: no row is added or deleted,
\* and the name, phone and URL cells stay as they are.
C19_InboundFrame ==
    [][ leads' # leads =>
          \E i \in insts :
              LET p == loc[i].row - 1 IN
              /\ InProgress(pc[i])
              /\ p \in DOMAIN leads
              /\ DOMAIN leads' = DOMAIN leads
              /\ \A q \in DOMAIN leads \ {p} : leads'[q] = leads[q]
              /\ leads'[p].status # leads[p].status
              /\ leads'[p] = [leads[p] EXCEPT !.status = leads'[p].status] ]_vars

\* The second row has been taken through all its writes: marked as in
\* processing, then as complete.
C19_Witness ==
    /\ Len(leads) >= 2
    /\ {"marked_processing", "marked_complete"} \subseteq hist[2].ev
    /\ leads[2].status = StComplete
    /\ leads[1].status # StPending


\* The digits of a contact, the last ten of them when there are more.
ContactDigits(phone) == LastN(SelectSeq(phone, IsDigit), PHONE_KEY_DIGITS)

\* The key by the priority rule: the phone when its digits are ten,
\* otherwise the name, lower case with only letters, digits and single
\* blanks, when there is any, otherwise none.
RuleKey(name, phone) ==
    IF Len(ContactDigits(phone)) = PHONE_KEY_DIGITS
    THEN [kind |-> "phone", val |-> ContactDigits(phone)]
    ELSE IF NormalizeText(name) # <<>>
         THEN [kind |-> "name", val |-> NormalizeText(name)]
         ELSE NoKey

\* C20: every key computed for a pair of name and contact is the key of the
\* priority rule, so that the same pair always has the same key.
C20_FingerprintRule ==
    \A k \in DOMAIN calc.keys : calc.keys[k] = RuleKey(calc.name, calc.phone)


\* C14: a check that loads a log whose date is not the date of the day works
\* on the count 0 and the date of the day, and so finds capacity and sleeps
\* nothing; a check that loads a log of the day leaves its count as it is.
\* This holds for check_daily_limit of the scheduler and for
\* reset_daily_count_if_new_day of the processor.
C14_QuotaRollover ==
    /\ mc.check.done =>
         IF mc.check.loaded.date # Today(mc.check.at)
         THEN /\ mc.check.campaign_log.processed_count = 0
              /\ mc.check.campaign_log.date = Today(mc.check.at)
              /\ mc.check.result
              /\ mc.check.sleep_seconds = 0
         ELSE mc.check.campaign_log = mc.check.loaded
    /\ mc.reset.done =>
         IF mc.reset.loaded.date # mc.reset.today
         THEN /\ mc.reset.log_data.processed_count = 0
              /\ mc.reset.log_data.date = mc.reset.today
         ELSE mc.reset.log_data = mc.reset.loaded

\* The scheduler finds the full log of day 1 on day 2, and the processor's
\* reset has met a log of another day.
C14_Witness ==
    /\ mc.check.done
    /\ mc.check.loaded.date = <<1>>
    /\ mc.check.loaded.processed_count = MAX_CAMPAIGNS_PER_DAY
    /\ Today(mc.check.at) = <<2>>
    /\ mc.check.result
    /\ mc.reset.done
    /\ mc.reset.loaded.date # mc.reset.today
    /\ mc.reset.loaded.processed_count = MAX_LEADS_PER_DAY

\* The saved count of the day has reached MAX_CAMPAIGNS_PER_DAY and a pass of
\* the scheduler is about to start.
Exhausted ==
    /\ mc.pc = "cycle"
    /\ LoadCampaignLog(mc.file).date = Today(mc.now)
    /\ LoadCampaignLog(mc.file).processed_count >= MAX_CAMPAIGNS_PER_DAY

\* C15: a pass that starts with the count of the day at the cap sleeps from
\* now until 00:01:00 of the next day and starts no campaign; the pass after
\* it starts on another date, works on the count 0 and goes on to the
\* campaigns.
C15_QuotaExhaustion ==
    [][ /\ (Exhausted /\ mc'.now # mc.now) =>
             LET s == mc'.check.sleep_seconds IN
             /\ mc'.check.at = mc.now
             /\ ~mc'.check.result
             /\ (mc.now + s) \div SecondsPerDay = (mc.now \div SecondsPerDay) + 1
             /\ (mc.now + s) % SecondsPerDay = 60
             /\ mc'.now >= mc.now + s
             /\ mc'.pc = "cycle"
             /\ mc'.file = mc.file
             /\ Today(mc'.now) # Today(mc.now)
        /\ (mc.pc = "cycle" /\ mc.check.done /\ ~mc.check.result
              /\ mc'.check # mc.check) =>
             /\ mc'.check.result
             /\ mc'.check.campaign_log.processed_count = 0
             /\ mc'.pc = "work"
             /\ mc'.now = mc.now ]_vars

\* The pass after the sleep: it starts at 00:02:00 of day 2 on the full log
\* of day 1 and goes on to the campaigns.
C15_Witness ==
    /\ mc.pc = "work"
    /\ mc.check.result
    /\ mc.check.loaded.date = <<1>>
    /\ mc.check.loaded.processed_count = MAX_CAMPAIGNS_PER_DAY
    /\ mc.check.at = 2 * SecondsPerDay + WakeSecond + LOOP_DELAY


\* The number of digits of a contact.
DigitCount(phone) == Len(SelectSeq(phone, IsDigit))

\* C21: a contact of nine digits, or of eleven digits without a zero in
\* front, never gets a phone key: its key is the name key or none.
C21_ConservativePhone ==
    \A k \in DOMAIN calc.keys :
        (\/ DigitCount(calc.phone) = 9
         \/ /\ DigitCount(calc.phone) = 11
            /\ Head(SelectSeq(calc.phone, IsDigit)) # "0")
        => calc.keys[k].kind # "phone"

\* The reference: digits only; 91 in front of twelve digits dropped; then a
\* zero in front dropped; the last ten digits, or all when they are fewer.
ReferencePhone(phone) ==
    LET digits == SelectSeq(phone, IsDigit)
        local == IF Len(digits) = 12 /\ SubSeq(digits, 1, 2) = <<"9", "1">>
                 THEN SubSeq(digits, 3, 12) ELSE digits
        bare == IF local # <<>> /\ Head(local) = "0" THEN Tail(local) ELSE local
    IN  LastN(bare, PHONE_KEY_DIGITS)

\* C22: what normalize_phone returns is the reference value of the contact.
C22_NormalizePhone ==
    calc.norm # <<>> => calc.norm[1] = ReferencePhone(calc.phone)


\* C23: the row appended for an item whose contact holds a digit has the
\* normalised phone of that contact in its phone cell, and an item for which
\* a row was appended is left with the status complete.
C23_StoredContact ==
    /\ \A i \in insts :
         (pc[i] = "phase3" /\ DigitCount(leads[loc[i].row - 1].phone) > 0) =>
             results[Len(results)].phone
                 = NormalizePhone(Strip(leads[loc[i].row - 1].phone))
    /\ \A r \in DOMAIN hist :
         ("appended" \in hist[r].ev /\ \A i \in insts : loc[i].row # RowNum(r)) =>
             leads[r].status = StComplete


\* A status that describes an error: none of the texts the engine writes for
\* an item that is waiting, in work, done or a duplicate.
IsErrorStatus(status) ==
    status \notin {StPending, StProcessing, StComplete, StCompleteDuplicate}

\* C24: when a store operation gives up while an item is in work (the
\* write of the processing mark or the save fails, or a status write raises
\* to main), the item fails: its status cell gets an error description and
\* the engine is back at the head of its loop.
C24_OperationExhaustion ==
    [][ \A i \in insts :
          (InProgress(pc[i])
             /\ \/ (ev'[i] \ ev[i]) \cap {"save_failed", "raised"} # {}
                \/ pc[i] = "markproc" /\ faults' < faults) =>
              /\ pc'[i] = "loop"
              /\ IsErrorStatus(leads'[loc[i].row - 1].status) ]_vars


\* C25: an item whose URL cell is empty or says that no website was found is
\* skipped: no row is appended for it, it is selected once at most, and once
\* the engine has left it its status cell holds an error value (unless it was
\* found to be a duplicate first).
C25_InvalidItem ==
    \A r \in DOMAIN leads :
        NoWebsite(Strip(leads[r].url)) =>
            /\ hist[r].appends = 0
            /\ hist[r].selects <= 1
            /\ (/\ hist[r].selects = 1
                /\ "marked_dup" \notin hist[r].ev
                /\ \A i \in insts : loc[i].row # RowNum(r)) =>
                   IsErrorStatus(leads[r].status)


\* C26: whenever the processing of a selected item ends, the status cell of
\* the item states how it ended: 'Complete' for a processed item, 'Complete -
\* Duplicate' for a duplicate, an error description for a validation, save
\* or verification failure.
C26_StatusReflectsOutcome ==
    [][ \A i \in insts :
          (InProgress(pc[i]) /\ pc'[i] = "loop") =>
              LET status == leads'[loc[i].row - 1].status
              IN  IF "marked_complete" \in ev'[i] THEN status = StComplete
                  ELSE IF {"p1_dup", "p2_dup"} \cap ev'[i] # {}
                       THEN status = StCompleteDuplicate
                       ELSE IsErrorStatus(status) ]_vars


\* C27: when Phase 3 has found more than one matching row and has deleted
\* the extra rows, the local registry holds the fingerprint of the item when
\* the phase returns, as it does after exactly one match.
C27_RegistryAfterSelfHeal ==
    \A i \in insts :
        (pc[i] = "sync" /\ "p3_cleaned" \in ev[i]) =>
            CreateDuplicateKey(loc[i].name, loc[i].correct_phone) \in registry[i]


\* The item of LEADS row r has no fingerprint.
NoFingerprint(r) ==
    CreateDuplicateKey(Strip(leads[r].name), Strip(leads[r].phone)) = NoKey

\* C28: an item without a fingerprint is never reported as a duplicate by
\* Phase 1, 2 or 3, and it is processed through to the append of its result
\* row: once the engine has left it, a row has been appended for it.
C28_NoFingerprintExemption ==
    \A r \in DOMAIN leads :
        NoFingerprint(r) =>
            /\ hist[r].ev \cap {"p1_dup", "p2_dup", "p3_duplicates", "marked_dup"} = {}
            /\ (hist[r].selects >= 1 /\ \A i \in insts : loc[i].row # RowNum(r)) =>
                   hist[r].appends >= 1


\* The passes listed in trail: every pass but the last one failed when last
\* is TRUE, every pass failed otherwise; and the sleep after a failure that
\* is not a rate-limit error is BASE_BACKOFF at every position.
RetryPattern(trail, last) ==
    \A k \in DOMAIN trail :
        /\ (trail[k].result = "ok") => (last /\ k = Len(trail))
        /\ (trail[k].result = "error") => trail[k].slept = BASE_BACKOFF

\* C29: whatever the remote operation does attempt by attempt, safe_sheet_read
\* and safe_sheet_write invoke it MAX_RETRIES times at most, return at the
\* first success without another invocation, raise only after MAX_RETRIES
\* failures, and sleep BASE_BACKOFF after a failure that is not a rate-limit
\* error, at whatever attempt it happens.
C29_RetryBudget ==
    LET l == io.last IN
    /\ io.pc \in {"read", "write"} =>
           /\ Len(io.trail) = io.attempt
           /\ io.attempt < MAX_RETRIES
           /\ RetryPattern(io.trail, FALSE)
    /\ (l.kind \in {"read", "write"} /\ l.outcome # "hit") =>
           /\ l.calls = Len(l.trail)
           /\ l.calls >= 1 /\ l.calls <= MAX_RETRIES
           /\ RetryPattern(l.trail, TRUE)
           /\ l.outcome \in {"fetched", "written"}
                  <=> l.trail[Len(l.trail)].result = "ok"
           /\ l.outcome = "raised"
                  <=> (Len(l.trail) = MAX_RETRIES
                       /\ l.trail[MAX_RETRIES].result # "ok")

\* Witness of C29: a write has succeeded at its fourth attempt, after a
\* rate-limit error and then two other errors, the last of them at the third
\* attempt.
C29_Witness ==
    LET l == io.last IN
    /\ l.kind = "write" /\ l.outcome = "written"
    /\ l.calls = 4
    /\ l.trail[1].result = "429"
    /\ l.trail[2].result = "error"
    /\ l.trail[3].result = "error" /\ l.trail[3].slept = BASE_BACKOFF


\* C30: a manual interrupt does not cut an item short: the engine leaves the
\* loop of main only from the boundary between two iterations, never from
\* the middle of the processing of an item.
C30_InterruptTiming ==
    [][ \A i \in insts :
          (pc[i] # "stopped" /\ pc'[i] = "stopped") => ~InProgress(pc[i]) ]_vars


\* The rows of the RESULTS sheet whose fingerprint is not the one of the item
\* instance i works on, in the order of the sheet.
OtherRows(i, rows) ==
    LET dup_key == CreateDuplicateKey(loc[i].name, loc[i].correct_phone)
        Other(row) == RowKey(row) = NoKey \/ RowKey(row) # dup_key
    IN  SelectSeq(rows, Other)

\* C31: the clean-up of Phase 3 deletes only rows with the fingerprint of the
\* item: as long as nobody else edits the RESULTS sheet, every deletion of
\* the clean-up leaves the rows with another fingerprint as the scan of the
\* phase found them.
C31_SelfHealFrame ==
    [][ \A i \in insts :
          (/\ pc[i] = "cleanup"
           /\ edits' = edits
           /\ hist[loc[i].row - 1].scan.quiet) =>
              OtherRows(i, results') = OtherRows(i, results) ]_vars


\* C32: the three phases compute the fingerprint of an item from the same
\* pair: once the phone of the item has been looked up, the key Phase 1 has
\* checked (name, phone_raw) is the key Phase 2 and Phase 3 check (name,
\* correct_phone), and it is the key of the row that is appended.
C32_OneFingerprint ==
    \A i \in insts :
        LET phase1_key == CreateDuplicateKey(loc[i].name, loc[i].phone_raw) IN
        /\ pc[i] \in {"phase2", "save", "phase3"} =>
               CreateDuplicateKey(loc[i].name, loc[i].correct_phone) = phase1_key
        /\ (pc[i] = "phase3" /\ results # <<>>) =>
               RowKey(results[Len(results)]) = phase1_key


\* C33: between two items, every fingerprint the registry of the engine
\* holds is the fingerprint of a row of the RESULTS sheet.
C33_RegistrySound ==
    \A i \in insts :
        pc[i] = "loop" => registry[i] \subseteq KeysOf(results)


\* The fingerprint of the item instance i works on, as the phase that has
\* decided about it last computes it: Phase 1 from the phone of the LEADS
\* row, Phase 2 and Phase 3 from the phone that was looked up.
DecidedKey(i) ==
    IF pc[i] = "complete" \/ "p2_dup" \in ev[i]
    THEN CreateDuplicateKey(loc[i].name, loc[i].correct_phone)
    ELSE CreateDuplicateKey(loc[i].name, loc[i].phone_raw)

\* C34: whenever the engine sets the status of an item that has a fingerprint
\* to 'Complete' or 'Complete - Duplicate', the RESULTS sheet holds a row with
\* the fingerprint of the item at that moment.
C34_CompleteImpliesStored ==
    [][ \A i \in insts :
          (/\ pc[i] \in {"complete", "markdup"}
           /\ leads' # leads
           /\ DecidedKey(i) # NoKey) =>
              /\ leads'[loc[i].row - 1].status \in {StComplete, StCompleteDuplicate}
              /\ MatchingPositions(results', DecidedKey(i)) # {} ]_vars


\* C35: under weak fairness of the loop, on a store whose calls succeed in
\* the end, every item whose status is pending gets another status: an
\* item that fails does not keep the loop from the items after it.
C35_Progress ==
    \A r \in 1..MaxBusyLeads :
        (r \in DOMAIN leads /\ IsPending(leads[r].status))
            ~> (r \in DOMAIN leads /\ ~IsPending(leads[r].status))

\* Witness of C35: the first item has failed its validation, and the item
\* after it has been selected and is not pending any more.
C35_Witness ==
    /\ Len(leads) >= 2
    /\ "invalid" \in hist[1].ev
    /\ hist[2].selects >= 1
    /\ ~IsPending(leads[2].status)


\* C36: the hunter script is started once at most for each area (compared
\* without case and surrounding blanks), whether the status updates succeed
\* or not, and no row marked 'Duplicate - Skipped' has been hunted.
C36_CampaignDedup ==
    /\ \A j, k \in DOMAIN mc.hunts :
           j < k => mc.hunts[j].area # mc.hunts[k].area
    /\ \A k \in DOMAIN mc.hunts :
           mc.sheet[mc.hunts[k].row - 1].status # DuplicateSkipped


\* The last run of the hunter script has failed, and the row of its campaign.
LastHuntFailed ==
    mc.hunts # <<>> /\ ~mc.hunts[Len(mc.hunts)].success

\* C37: after a run of the hunter script has failed and the supervisor has
\* waited, the campaign of that run is the one a later cycle selects: between
\* two cycles find_active_campaign finds the row of the failed campaign.
C37_CampaignRetry ==
    (mc.pc = "cycle" /\ LastHuntFailed) =>
        FindActiveCampaign(mc.sheet, 0).row = mc.hunts[Len(mc.hunts)].row


\* The count of the day that the file holds at the time now: the count of
\* a log of an earlier day is 0.
CountOfDay(file, now) ==
    ResetIfNewDay(LoadCampaignLog(file), now).processed_count

\* The time at which a pass that ran the hunter script and succeeded raised
\* the count: the pass ends CAMPAIGN_SUCCESS_DELAY and LOOP_DELAY later.
CountedAt(ended_pass) == ended_pass - CAMPAIGN_SUCCESS_DELAY - LOOP_DELAY

\* A pass of process_campaign that got past the check of the limit.
CampaignPass ==
    LET started == Len(mc'.hunts) > Len(mc.hunts)
        succeeded == started /\ mc'.hunts[Len(mc'.hunts)].success
    IN  (mc.pc = "work" /\ mc'.pc = "cycle") =>
          /\ started =>
               /\ mc.check.done /\ mc.check.result
               /\ mc.check.loaded = LoadCampaignLog(mc.file)
               /\ CountOfDay(mc.file, mc.check.at) < MAX_CAMPAIGNS_PER_DAY
          /\ succeeded =>
               /\ LoadCampaignLog(mc'.file).processed_count =
                      CountOfDay(mc.file, CountedAt(mc'.now)) + 1
               /\ LoadCampaignLog(mc'.file).date = Today(CountedAt(mc'.now))
          /\ ~succeeded => mc'.file = mc.file

\* C38: with one supervisor, the hunter script is started only after a check
\* that found the count of the day below MAX_CAMPAIGNS_PER_DAY, a campaign
\* that succeeds raises the count of the day by exactly one, any other pass
\* leaves the file alone, and the count in the file never exceeds
\* MAX_CAMPAIGNS_PER_DAY.
C38_CampaignCap ==
    /\ [](LoadCampaignLog(mc.file).processed_count <= MAX_CAMPAIGNS_PER_DAY)
    /\ [][CampaignPass]_vars

\* The last campaign the day had room for has succeeded, and the next check
\* found the limit reached and slept.
C38_Witness ==
    /\ mc.hunts # <<>> /\ mc.hunts[Len(mc.hunts)].success
    /\ LoadCampaignLog(mc.file).processed_count = MAX_CAMPAIGNS_PER_DAY
    /\ mc.check.done /\ ~mc.check.result
    /\ mc.check.sleep_seconds > 0


\* C39: the text phase2_embed_in_icebreaker returns contains the URL, a
\* second call with the same URL returns its input unchanged, and the
\* validation of a text the embedding returned never raises the issue
\* "Preview URL not in ice breaker".
C39_EmbedContainsUrl ==
    /\ \A k \in DOMAIN calc.embeds : IsSubstring(calc.url, calc.embeds[k])
    /\ \A k \in DOMAIN calc.embeds : k > 1 => calc.embeds[k] = calc.embeds[k - 1]
    /\ calc.issue # <<>> => calc.issue = <<FALSE>>

\* The embedding has added a URL to a text without it, was called again, and
\* the validation has looked at the result.
C39_Witness ==
    /\ Len(calc.embeds) >= 2
    /\ calc.url # <<>>
    /\ ~IsSubstring(calc.url, calc.ice)
    /\ calc.embeds[1] # calc.ice
    /\ calc.issue # <<>>

====
